---------------------------- MODULE Spec2Model ----------------------------
(* Clinical-trial indexing scripts (scripts/index_trials_gemini.py and      *)
(* scripts/index_trials.py): the quality scorer, the text synthesizer, the  *)
(* document transformer, the embedding sub-batch loop, the bulk loader and   *)
(* the validator.                                                            *)
(*                                                                           *)
(* Python values are tagged records [t, s, n]: t is the type ("missing" for  *)
(* an absent key, "none", "str", "int", "bool"), s the characters of a str   *)
(* (a sequence of one-character strings), n the number of an int or bool.    *)
(* Collections are [t, items]. The float score is kept in sevenths           *)
(* (score7 = 7 * score): the only non-integer term of the rubric is          *)
(* filled / 7 * 40, and it is exact in floating point for filled = 0 and 7.  *)
EXTENDS Integers, Sequences, FiniteSets, TLC

VARIABLES
    script,      \* which script runs: "gemini" (index_trials_gemini.py) or "basic" (index_trials.py)
    now_year,    \* datetime.now().year
    pc,          \* position of the run / of the function under check
    trial,       \* the record handed to a pure function
    emb_arg,     \* the embedding argument of transform_trial_for_indexing
    out,         \* the function's outcome
    trials,          \* main: the corpus loaded from the dataset
    use_embeddings,  \* main: what initialize_gemini returned
    index_exists,    \* store: whether the index exists
    store,           \* store: the documents of the index, by _id
    texts,           \* bulk_index_trials: the synthesized texts
    embeddings,      \* bulk_index_trials: None, or the list built by the sub-batch loop
    batch_start,     \* bulk_index_trials: i of the sub-batch loop
    batch_embeddings,  \* generate_embeddings_batch: its local list
    failed_batches,  \* provider: the sub-batches (by their i) in which a call failed
    actions,         \* bulk_index_trials: the bulk actions
    next_item,       \* streaming_bulk: how many actions it has yielded a result for
    success,         \* bulk_index_trials: counter
    failed,          \* bulk_index_trials: counter
    submitted,       \* store: how many times each action was submitted
    rejected,        \* store: the positions of the actions it rejected
    report,          \* validate_indexing: what it printed (count, embedding warning) and asked of the store
    store_ops,       \* store: the kinds of operation the run has asked of it
    index_call,      \* create_index_if_not_exists: the answer read and the requests made, in order
    last_call,       \* provider: "none" before the first call, then what followed the latest call
    failure,         \* why the run ended early: the exit taken, or the function an exception escaped from
    exit_code        \* the process exit status; -1 while running

pure_vars == <<script, now_year, trial, emb_arg, out>>

run_vars ==
    <<trials, use_embeddings, index_exists, store, texts, embeddings, batch_start,
      batch_embeddings, failed_batches, actions, next_item, success, failed, submitted, rejected, report,
      store_ops, index_call, last_call, failure, exit_code>>

vars == <<pc, pure_vars, run_vars>>

-----------------------------------------------------------------------------
(* Bounds of the model *)

\* datetime.now().year of the modelled run
BaseYear == 2026

-----------------------------------------------------------------------------
(* Python values *)

Missing == [t |-> "missing", s |-> <<>>, n |-> 0]
NoneV == [t |-> "none", s |-> <<>>, n |-> 0]
Str(chars) == [t |-> "str", s |-> chars, n |-> 0]
IntV(k) == [t |-> "int", s |-> <<>>, n |-> k]
BoolV(b) == [t |-> "bool", s |-> <<>>, n |-> IF b THEN 1 ELSE 0]

LMissing == [t |-> "missing", items |-> <<>>]
LNone == [t |-> "none", items |-> <<>>]
ListV(items) == [t |-> "list", items |-> items]
\* a str where a list is expected: indexing and iterating it yields its characters
LStr(chars) == [t |-> "str", items |-> [i \in 1..Len(chars) |-> [t |-> "str", name |-> Str(<<chars[i]>>), cls |-> Missing]]]

\* an item of a collection: a mapping with a name attribute and a class attribute, or a bare value
DictItem(name, cls) == [t |-> "dict", name |-> name, cls |-> cls]
StrItem(chars) == [t |-> "str", name |-> Str(chars), cls |-> Missing]
NoneItem == [t |-> "none", name |-> NoneV, cls |-> Missing]

\* bool(v)
Truthy(v) ==
    CASE v.t = "str" -> v.s # <<>>
      [] v.t = "int" -> v.n # 0
      [] v.t = "bool" -> v.n # 0
      [] OTHER -> FALSE

\* bool(v) of a collection value
LTruthy(l) == l.t \in {"list", "str"} /\ l.items # <<>>

Digit == <<"0", "1", "2", "3", "4", "5", "6", "7", "8", "9">>

DigitVal(c) == CHOOSE d \in 0..9 : Digit[d + 1] = c

IsDigit(c) == \E d \in 0..9 : Digit[d + 1] = c

RECURSIVE NatStr(_)
\* str(k) for k >= 0
NatStr(k) == IF k < 10 THEN <<Digit[k + 1]>> ELSE NatStr(k \div 10) \o <<Digit[(k % 10) + 1]>>

\* str(int)
IntStr(k) == IF k < 0 THEN <<"-">> \o NatStr(-k) ELSE NatStr(k)

\* str(v); a missing key is read with a default before str() is applied
PyStr(v) ==
    CASE v.t = "str" -> v.s
      [] v.t = "none" -> <<"N", "o", "n", "e">>
      [] v.t = "int" -> IntStr(v.n)
      [] v.t = "bool" -> IF v.n = 1 THEN <<"T", "r", "u", "e">> ELSE <<"F", "a", "l", "s", "e">>
      [] OTHER -> <<>>

UpperCase == <<"A", "B", "C", "D", "E", "F", "G", "H", "I", "J", "K", "L", "M",
               "N", "O", "P", "Q", "R", "S", "T", "U", "V", "W", "X", "Y", "Z">>

LowerCase == <<"a", "b", "c", "d", "e", "f", "g", "h", "i", "j", "k", "l", "m",
               "n", "o", "p", "q", "r", "s", "t", "u", "v", "w", "x", "y", "z">>

LowerChar(c) ==
    IF \E i \in 1..26 : UpperCase[i] = c
    THEN LowerCase[CHOOSE i \in 1..26 : UpperCase[i] = c]
    ELSE c

\* str.lower()
Lower(chars) == [i \in 1..Len(chars) |-> LowerChar(chars[i])]

\* sub in chars
Contains(sub, chars) ==
    \E i \in 0..(Len(chars) - Len(sub)) : SubSeq(chars, i + 1, i + Len(sub)) = sub

\* chars[:k]
Take(chars, k) == SubSeq(chars, 1, IF Len(chars) < k THEN Len(chars) ELSE k)

RECURSIVE StripLeft(_)
StripLeft(chars) ==
    IF chars # <<>> /\ Head(chars) = " " THEN StripLeft(Tail(chars)) ELSE chars

RECURSIVE StripRight(_)
StripRight(chars) ==
    IF chars # <<>> /\ chars[Len(chars)] = " "
    THEN StripRight(SubSeq(chars, 1, Len(chars) - 1))
    ELSE chars

RECURSIVE DigitsVal(_)
DigitsVal(chars) ==
    IF chars = <<>> THEN 0
    ELSE 10 * DigitsVal(SubSeq(chars, 1, Len(chars) - 1)) + DigitVal(chars[Len(chars)])

\* int(str): surrounding blanks and one sign are accepted; anything else is a ValueError
ParseInt(chars) ==
    LET body == StripRight(StripLeft(chars))
        signed == body # <<>> /\ Head(body) \in {"+", "-"}
        digits == IF signed THEN Tail(body) ELSE body
    IN IF digits # <<>> /\ \A i \in 1..Len(digits) : IsDigit(digits[i])
       THEN [ok |-> TRUE, n |-> IF signed /\ Head(body) = "-" THEN -DigitsVal(digits) ELSE DigitsVal(digits)]
       ELSE [ok |-> FALSE, n |-> 0]

\* int(v): the number, or the exception raised
PyInt(v) ==
    CASE v.t = "int" -> [exc |-> "", n |-> v.n]
      [] v.t = "bool" -> [exc |-> "", n |-> v.n]
      [] v.t = "str" -> IF ParseInt(v.s).ok
                        THEN [exc |-> "", n |-> ParseInt(v.s).n]
                        ELSE [exc |-> "ValueError", n |-> 0]
      [] OTHER -> [exc |-> "TypeError", n |-> 0]

-----------------------------------------------------------------------------
(* String literals of the source and of the sample records *)

s_INDUSTRY == <<"I", "N", "D", "U", "S", "T", "R", "Y">>

s_NIH == <<"N", "I", "H">>

s_RANDOMIZED == <<"R", "A", "N", "D", "O", "M", "I", "Z", "E", "D">>

s_NON_RANDOMIZED == <<"N", "O", "N", "_", "R", "A", "N", "D", "O", "M", "I", "Z", "E", "D">>

s_DOUBLE == <<"D", "O", "U", "B", "L", "E">>

s_TRIPLE == <<"T", "R", "I", "P", "L", "E">>

s_QUADRUPLE == <<"Q", "U", "A", "D", "R", "U", "P", "L", "E">>

s_SINGLE == <<"S", "I", "N", "G", "L", "E">>

s_Pfizer == <<"P", "f", "i", "z", "e", "r", " ", "I", "n", "c">>

s_GSK == <<"G", "S", "K">>

s_Mayo == <<"M", "a", "y", "o", " ", "C", "l", "i", "n", "i", "c">>

s_abc == <<"a", "b", "c">>

s_PHASE3 == <<"P", "H", "A", "S", "E", "3">>

s_RECRUITING == <<"R", "E", "C", "R", "U", "I", "T", "I", "N", "G">>

s_Yes == <<"Y", "e", "s">>

-----------------------------------------------------------------------------
(* Quality Scorer: calculate_quality_score *)

Scripts == {"gemini", "basic"}

required_fields ==
    <<"brief_title", "official_title", "brief_summaries_description",
      "phase", "overall_status", "enrollment", "source">>

industry_sponsors ==
    << <<"p", "f", "i", "z", "e", "r">>,
       <<"n", "o", "v", "a", "r", "t", "i", "s">>,
       <<"r", "o", "c", "h", "e">>,
       <<"m", "e", "r", "c", "k">>,
       <<"a", "s", "t", "r", "a", "z", "e", "n", "e", "c", "a">>,
       <<"b", "r", "i", "s", "t", "o", "l">>,
       <<"j", "o", "h", "n", "s", "o", "n">>,
       <<"a", "b", "b", "v", "i", "e">>,
       <<"g", "i", "l", "e", "a", "d">>,
       <<"a", "m", "g", "e", "n">>,
       <<"s", "a", "n", "o", "f", "i">>,
       <<"g", "s", "k">>,
       <<"b", "a", "y", "e", "r">>,
       <<"e", "l", "i", " ", "l", "i", "l", "l", "y">>,
       <<"t", "a", "k", "e", "d", "a">> >>

\* filled = sum(1 for field in required_fields if trial.get(field))
Filled(t) == Cardinality({i \in 1..Len(required_fields) : Truthy(t[required_fields[i]])})

\* completeness, in sevenths of a point: (filled / len(required_fields)) * 40
Completeness7(t) == Filled(t) * 40

\* a description component worth 15 points
DescriptionPoints_fifteen(t) == IF Truthy(t.detailed_description) THEN 15 ELSE 0

\* +10 when the detailed description is non-empty
DescriptionPoints(t) == IF Truthy(t.detailed_description) THEN 10 ELSE 0

\* the lower-cased sponsor name, or the exception raised on the way:
\* gemini: str(trial.get('source', '')).lower(); basic: trial.get('source', '').lower()
SourceLower(sc, t) ==
    IF sc = "gemini" THEN [exc |-> "", s |-> Lower(PyStr(t.source))]
    ELSE IF t.source.t \in {"str", "missing"} THEN [exc |-> "", s |-> Lower(t.source.s)]
    ELSE [exc |-> "AttributeError", s |-> <<>>]

\* any(sponsor in source for sponsor in industry_sponsors)
IsIndustryName(src) == \E i \in 1..Len(industry_sponsors) : Contains(industry_sponsors[i], src)

\* trial['sponsors'][0].get('agency_class') == 'INDUSTRY', or the exception raised:
\* only a mapping has .get
FirstSponsorIsIndustry(t) ==
    LET first == t.sponsors.items[1]
    IN IF first.t = "dict"
       THEN [exc |-> "", yes |-> first.cls = Str(s_INDUSTRY)]
       ELSE [exc |-> "AttributeError", yes |-> FALSE]

\* a sponsor component that looks at the class of the first sponsor before the name
SponsorPoints_classFirst(sc, t) ==
    LET src == SourceLower(sc, t)
    IN IF src.exc # "" THEN [exc |-> src.exc, pts |-> 0]
       ELSE IF LTruthy(t.sponsors) /\ FirstSponsorIsIndustry(t).exc = "" /\ FirstSponsorIsIndustry(t).yes
       THEN [exc |-> "", pts |-> 12]
       ELSE IF IsIndustryName(src.s) THEN [exc |-> "", pts |-> 15]
       ELSE IF LTruthy(t.sponsors)
            THEN [exc |-> FirstSponsorIsIndustry(t).exc, pts |-> IF FirstSponsorIsIndustry(t).exc = "" THEN 8 ELSE 0]
            ELSE [exc |-> "", pts |-> 0]

\* the sponsor component (15 / 12 / 8 / 0), or the exception raised
SponsorPoints(sc, t) ==
    LET src == SourceLower(sc, t)
    IN IF src.exc # "" THEN [exc |-> src.exc, pts |-> 0]
       ELSE IF IsIndustryName(src.s) THEN [exc |-> "", pts |-> 15]
       ELSE IF LTruthy(t.sponsors)
            THEN IF FirstSponsorIsIndustry(t).exc # ""
                 THEN [exc |-> FirstSponsorIsIndustry(t).exc, pts |-> 0]
                 ELSE [exc |-> "", pts |-> IF FirstSponsorIsIndustry(t).yes THEN 12 ELSE 8]
            ELSE [exc |-> "", pts |-> 0]

\* +5 randomized, +5 double/triple/quadruple masking, +5 data monitoring committee
DesignPoints(t) ==
    (IF t.allocation = Str(s_RANDOMIZED) THEN 5 ELSE 0)
    + (IF t.masking \in {Str(s_DOUBLE), Str(s_TRIPLE), Str(s_QUADRUPLE)} THEN 5 ELSE 0)
    + (IF Truthy(t.has_dmc) THEN 5 ELSE 0)

\* the enrollment tiers with the first threshold read as "more than 1000"
EnrollmentTier_strict(n) ==
    IF n > 1000 THEN 10
    ELSE IF n >= 500 THEN 8
    ELSE IF n >= 100 THEN 5
    ELSE IF n >= 50 THEN 3
    ELSE 0

\* enrollment tiers that add up: every threshold reached earns its points
EnrollmentTier_cumulative(n) ==
    (IF n >= 1000 THEN 10 ELSE 0) + (IF n >= 500 THEN 8 ELSE 0)
    + (IF n >= 100 THEN 5 ELSE 0) + (IF n >= 50 THEN 3 ELSE 0)

EnrollmentTier(n) ==
    IF n >= 1000 THEN 10
    ELSE IF n >= 500 THEN 8
    ELSE IF n >= 100 THEN 5
    ELSE IF n >= 50 THEN 3
    ELSE 0

\* int(trial.get('enrollment', 0)) under except (ValueError, TypeError): pass
EnrollmentPoints(t) ==
    LET e == IF t.enrollment.t = "missing" THEN IntV(0) ELSE t.enrollment
    IN IF PyInt(e).exc # "" THEN 0 ELSE EnrollmentTier(PyInt(e).n)

RecencyTier(start_year, current_year) ==
    IF start_year >= current_year THEN 10
    ELSE IF start_year >= current_year - 1 THEN 8
    ELSE IF start_year >= current_year - 2 THEN 5
    ELSE IF start_year >= current_year - 5 THEN 3
    ELSE 0

\* the start year read from a truthy start_date, or the exception (always caught):
\* gemini: int(start_date[:4]) if isinstance(start_date, str) else datetime.now().year
\* basic:  int(start_date[:4]); slicing an int or bool is a TypeError
StartYear(sc, d, current_year) ==
    IF d.t = "str" THEN PyInt(Str(Take(d.s, 4)))
    ELSE IF sc = "gemini" THEN [exc |-> "", n |-> current_year]
    ELSE [exc |-> "TypeError", n |-> 0]

\* the recency component without the "if start_date:" guard
RecencyPoints_unguarded(sc, t, current_year) ==
    IF StartYear(sc, t.start_date, current_year).exc # "" THEN 0
    ELSE RecencyTier(StartYear(sc, t.start_date, current_year).n, current_year)

RecencyPoints(sc, t, current_year) ==
    IF ~Truthy(t.start_date) THEN 0
    ELSE IF StartYear(sc, t.start_date, current_year).exc # "" THEN 0
    ELSE RecencyTier(StartYear(sc, t.start_date, current_year).n, current_year)

Min(a, b) == IF a < b THEN a ELSE b

\* The outcome of calculate_quality_score: the exception that escapes it (exc # ""),
\* or the score in sevenths, min(100.0, score)
calculate_quality_score(sc, t, current_year) ==
    LET sp == SponsorPoints(sc, t)
    IN IF sp.exc # "" THEN [exc |-> sp.exc, score7 |-> 0]
       ELSE [exc |-> "",
             score7 |-> Min(700, Completeness7(t)
                                 + 7 * (DescriptionPoints(t) + sp.pts + DesignPoints(t)
                                        + EnrollmentPoints(t) + RecencyPoints(sc, t, current_year)))]

-----------------------------------------------------------------------------
(* Text Synthesizer: generate_searchable_text (index_trials_gemini.py) *)

\* the detailed description is included only when len(desc) < 2000
DESCRIPTION_CEILING == 2000

RECURSIVE Join(_, _)
\* sep.join(parts)
Join(sep, parts) ==
    IF parts = <<>> THEN <<>>
    ELSE IF Len(parts) = 1 THEN parts[1]
    ELSE parts[1] \o sep \o Join(sep, Tail(parts))

RECURSIVE Concat(_)
Concat(seqs) == IF seqs = <<>> THEN <<>> ELSE Head(seqs) \o Concat(Tail(seqs))

\* f"{v}": the characters str(v) of a value read with trial[...]
Format(v) == PyStr(v)

\* what one collection item contributes to the list that is joined: a mapping gives
\* c.get(name, ''), anything else gives str(c)
ItemText(c) ==
    IF c.t = "dict" THEN (IF c.name.t = "missing" THEN Str(<<>>) ELSE c.name)
    ELSE Str(PyStr(c.name))

\* [c for c in items if c]
KeepTruthy(vals) == SelectSeq(vals, Truthy)

\* ', '.join(names) over the truthy names: a name that is no str is a TypeError
NamesText(coll) ==
    LET names == KeepTruthy([i \in 1..Len(coll.items) |-> ItemText(coll.items[i])])
    IN IF \E i \in 1..Len(names) : names[i].t # "str"
       THEN [exc |-> "TypeError", s |-> <<>>]
       ELSE [exc |-> "", s |-> Join(<<",", " ">>, [i \in 1..Len(names) |-> names[i].s])]

\* the keywords text: ', '.join(keywords) for a list (every item must be a str),
\* str(keywords) otherwise
KeywordsText(kw) ==
    IF kw.t = "list"
    THEN IF \E i \in 1..Len(kw.items) : kw.items[i].t # "str"
         THEN [exc |-> "TypeError", s |-> <<>>]
         ELSE [exc |-> "", s |-> Join(<<",", " ">>, [i \in 1..Len(kw.items) |-> kw.items[i].name.s])]
    ELSE [exc |-> "", s |-> Concat([i \in 1..Len(kw.items) |-> kw.items[i].name.s])]

TitlePart(t) ==
    IF Truthy(t.brief_title) THEN << <<"T", "i", "t", "l", "e", ":", " ">> \o Format(t.brief_title) >> ELSE <<>>

\* only when present and different from the brief title
OfficialTitlePart(t) ==
    IF Truthy(t.official_title) /\ t.official_title # t.brief_title
    THEN << <<"F", "u", "l", "l", " ", "t", "i", "t", "l", "e", ":", " ">> \o Format(t.official_title) >>
    ELSE <<>>

SummaryPart(t) ==
    IF Truthy(t.brief_summaries_description)
    THEN << <<"S", "u", "m", "m", "a", "r", "y", ":", " ">> \o Format(t.brief_summaries_description) >>
    ELSE <<>>

\* len(desc) of a truthy value: only a str has one here
DescriptionLen(t) ==
    IF t.detailed_description.t = "str"
    THEN [exc |-> "", n |-> Len(t.detailed_description.s)]
    ELSE [exc |-> "TypeError", n |-> 0]

\* the description part with the ceiling itself still included (len(desc) <= 2000)
DescriptionPart_inclusive(t) ==
    IF Truthy(t.detailed_description) /\ DescriptionLen(t).exc = ""
       /\ DescriptionLen(t).n <= DESCRIPTION_CEILING
    THEN << <<"D", "e", "s", "c", "r", "i", "p", "t", "i", "o", "n", ":", " ">> \o Format(t.detailed_description) >>
    ELSE <<>>

DescriptionPart(t) ==
    IF Truthy(t.detailed_description) /\ DescriptionLen(t).exc = ""
       /\ DescriptionLen(t).n < DESCRIPTION_CEILING
    THEN << <<"D", "e", "s", "c", "r", "i", "p", "t", "i", "o", "n", ":", " ">> \o Format(t.detailed_description) >>
    ELSE <<>>

ConditionsPart(t) ==
    IF LTruthy(t.conditions) /\ NamesText(t.conditions).exc = "" /\ NamesText(t.conditions).s # <<>>
    THEN << <<"C", "o", "n", "d", "i", "t", "i", "o", "n", "s", ":", " ">> \o NamesText(t.conditions).s >>
    ELSE <<>>

InterventionsPart(t) ==
    IF LTruthy(t.interventions) /\ NamesText(t.interventions).exc = ""
       /\ NamesText(t.interventions).s # <<>>
    THEN << <<"I", "n", "t", "e", "r", "v", "e", "n", "t", "i", "o", "n", "s", ":", " ">> \o NamesText(t.interventions).s >>
    ELSE <<>>

KeywordsPart(t) ==
    IF LTruthy(t.keywords) /\ KeywordsText(t.keywords).exc = "" /\ KeywordsText(t.keywords).s # <<>>
    THEN << <<"K", "e", "y", "w", "o", "r", "d", "s", ":", " ">> \o KeywordsText(t.keywords).s >>
    ELSE <<>>

PhasePart(t) == IF Truthy(t.phase) THEN << <<"P", "h", "a", "s", "e", ":", " ">> \o Format(t.phase) >> ELSE <<>>

StatusPart(t) ==
    IF Truthy(t.overall_status) THEN << <<"S", "t", "a", "t", "u", "s", ":", " ">> \o Format(t.overall_status) >> ELSE <<>>

\* the exception that escapes generate_searchable_text, "" when none does
SynthesisException(t) ==
    IF Truthy(t.detailed_description) /\ DescriptionLen(t).exc # "" THEN DescriptionLen(t).exc
    ELSE IF LTruthy(t.conditions) /\ NamesText(t.conditions).exc # "" THEN NamesText(t.conditions).exc
    ELSE IF LTruthy(t.interventions) /\ NamesText(t.interventions).exc # ""
         THEN NamesText(t.interventions).exc
    ELSE IF LTruthy(t.keywords) /\ KeywordsText(t.keywords).exc # "" THEN KeywordsText(t.keywords).exc
    ELSE ""

\* the parts list, in the order the code appends to it
SearchableParts(t) ==
    TitlePart(t) \o OfficialTitlePart(t) \o SummaryPart(t) \o DescriptionPart(t)
    \o ConditionsPart(t) \o InterventionsPart(t) \o KeywordsPart(t)
    \o PhasePart(t) \o StatusPart(t)

\* The outcome of generate_searchable_text: the exception that escapes it, or
\* the parts and ' '.join(parts)
generate_searchable_text(t) ==
    IF SynthesisException(t) # ""
    THEN [exc |-> SynthesisException(t), parts |-> <<>>, text |-> <<>>]
    ELSE [exc |-> "", parts |-> SearchableParts(t), text |-> Join(<<" ">>, SearchableParts(t))]

-----------------------------------------------------------------------------
(* Document Transformer: transform_trial_for_indexing *)

\* EMBEDDING_DIMENSION = 768 (index_trials_gemini.py); the mapping's dims in index_trials.py
EMBEDDING_DIMENSION == 768

\* An embedding argument: None, or the list [val] * dim (every vector of the model
\* repeats one component: the zero fallback is [0.0] * EMBEDDING_DIMENSION, and the
\* provider's vector for a text is written with the text's position as component)
NoEmbedding == [t |-> "none", dim |-> 0, val |-> 0]
Vec(val, dim) == [t |-> "list", dim |-> dim, val |-> val]

\* len(embedding)
VecLen(e) == e.dim

\* trial.get(field): None for an absent key
Get(v) == IF v.t = "missing" THEN NoneV ELSE v

\* trial.get(field, []): [] for an absent key
GetList(l) == IF l.t = "missing" THEN ListV(<<>>) ELSE l

\* a check that leaves the fallback's all-zero vector out of the document
AttachesEmbedding_nonzero(sc, e) == e.t # "none" /\ VecLen(e) = EMBEDDING_DIMENSION /\ e.val # 0

\* whether the document gets the description_embedding field:
\* gemini: embedding is not None and len(embedding) == EMBEDDING_DIMENSION
\* basic:  embedding is not None
AttachesEmbedding(sc, e) ==
    IF sc = "gemini" THEN e.t # "none" /\ VecLen(e) = EMBEDDING_DIMENSION
    ELSE e.t # "none"

\* The outcome of transform_trial_for_indexing: the exception that escapes it (from
\* calculate_quality_score), or the document
transform_trial_for_indexing(sc, t, e, current_year) ==
    LET q == calculate_quality_score(sc, t, current_year)
    IN IF q.exc # "" THEN [exc |-> q.exc, doc |-> <<>>]
       ELSE [exc |-> "",
             doc |-> [nct_id |-> Get(t.nct_id),
                      brief_title |-> Get(t.brief_title),
                      official_title |-> Get(t.official_title),
                      brief_summaries_description |-> Get(t.brief_summaries_description),
                      detailed_description |-> Get(t.detailed_description),
                      phase |-> Get(t.phase),
                      overall_status |-> Get(t.overall_status),
                      enrollment |-> Get(t.enrollment),
                      source |-> Get(t.source),
                      start_date |-> Get(t.start_date),
                      conditions |-> GetList(t.conditions),
                      interventions |-> GetList(t.interventions),
                      sponsors |-> GetList(t.sponsors),
                      keywords |-> GetList(t.keywords),
                      quality_score7 |-> q.score7,
                      has_embedding |-> AttachesEmbedding(sc, e),
                      description_embedding |-> IF AttachesEmbedding(sc, e) THEN e ELSE NoEmbedding]]

-----------------------------------------------------------------------------
(* The run's state before main() has done anything *)

\* embeddings = None
NoEmbeddings == [t |-> "none", items |-> <<>>]

\* the empty index
EmptyStore == [id \in {} |-> NoneV]

\* validate_indexing has printed nothing
NoIndexCall == [answer |-> "", requests |-> <<>>]
NoReport == [count |-> -1, warned_no_embeddings |-> FALSE, ops |-> <<>>]

RunIdle ==
    /\ trials = <<>>
    /\ use_embeddings = FALSE
    /\ index_exists = FALSE
    /\ store = EmptyStore
    /\ texts = <<>>
    /\ embeddings = NoEmbeddings
    /\ batch_start = 0
    /\ batch_embeddings = <<>>
    /\ failed_batches = {}
    /\ actions = <<>>
    /\ next_item = 0
    /\ success = 0
    /\ failed = 0
    /\ submitted = <<>>
    /\ rejected = {}
    /\ report = NoReport
    /\ store_ops = {}
    /\ index_call = NoIndexCall
    /\ last_call = "none"
    /\ failure = ""
    /\ exit_code = -1

-----------------------------------------------------------------------------
(* Sample records: the inputs the pure functions are checked on *)

s_TitleA == <<"T", "r", "i", "a", "l", " ", "A">>

s_TitleB == <<"T", "r", "i", "a", "l", " ", "B">>

s_Summary == <<"A", " ", "s", "t", "u", "d", "y">>

s_Desc == <<"D", "e", "t", "a", "i", "l", "s">>

\* str(year) + "-01-15"
YearDate(y) == Str(NatStr(y) \o <<"-", "0", "1", "-", "1", "5">>)

\* a record with no key at all
EmptyTrial ==
    [nct_id |-> Missing, brief_title |-> Missing, official_title |-> Missing,
     brief_summaries_description |-> Missing, detailed_description |-> Missing,
     phase |-> Missing, overall_status |-> Missing, enrollment |-> Missing,
     source |-> Missing, allocation |-> Missing, masking |-> Missing,
     has_dmc |-> Missing, start_date |-> Missing, sponsors |-> LMissing,
     conditions |-> LMissing, interventions |-> LMissing, keywords |-> LMissing]

\* a complete record of a listed industry sponsor, started this year
FullTrial ==
    [nct_id |-> Str(<<"N", "C", "T", "1">>), brief_title |-> Str(s_TitleA), official_title |-> Str(s_TitleB),
     brief_summaries_description |-> Str(s_Summary), detailed_description |-> Str(s_Desc),
     phase |-> Str(s_PHASE3), overall_status |-> Str(s_RECRUITING), enrollment |-> IntV(1000),
     source |-> Str(s_Pfizer), allocation |-> Str(s_RANDOMIZED), masking |-> Str(s_DOUBLE),
     has_dmc |-> BoolV(TRUE), start_date |-> YearDate(BaseYear),
     sponsors |-> ListV(<<DictItem(Str(s_Pfizer), Str(s_INDUSTRY))>>),
     conditions |-> LMissing, interventions |-> LMissing, keywords |-> LMissing]

EmptyValues == {Missing, NoneV, Str(<<>>)}

SourceValues ==
    EmptyValues \cup {Str(s_Mayo), Str(s_Pfizer), Str(s_GSK), Str(<<"E", "l", "i", " ", "L", "i", "l", "l", "y">>), IntV(7), IntV(0)}

SponsorsValues ==
    {LMissing, LNone, ListV(<<>>),
     ListV(<<DictItem(Str(s_Pfizer), Str(s_INDUSTRY))>>),
     ListV(<<DictItem(Str(s_Mayo), Str(s_NIH))>>),
     ListV(<<DictItem(Str(s_Mayo), Missing)>>),
     ListV(<<DictItem(Str(s_Mayo), Str(s_NIH)), DictItem(Str(s_Pfizer), Str(s_INDUSTRY))>>),
     ListV(<<StrItem(s_Pfizer)>>),
     ListV(<<NoneItem>>),
     LStr(s_Mayo)}

AllocationValues == EmptyValues \cup {Str(s_RANDOMIZED), Str(s_NON_RANDOMIZED)}

MaskingValues == EmptyValues \cup {Str(s_DOUBLE), Str(s_TRIPLE), Str(s_QUADRUPLE), Str(s_SINGLE)}

DmcValues == EmptyValues \cup {BoolV(TRUE), BoolV(FALSE), Str(s_Yes)}

EnrollmentValues ==
    EmptyValues
    \cup {IntV(n) : n \in {-5, 0, 49, 50, 99, 100, 499, 500, 999, 1000, 1001}}
    \cup {Str(s_abc), Str(<<"1", "0", "0", "0">>), Str(<<" ", "5", "0", "0", " ">>), Str(<<"-", "7">>), Str(<<"1", ",", "0", "0", "0">>), BoolV(TRUE)}

StartDateValues ==
    EmptyValues
    \cup {YearDate(BaseYear + k) : k \in {-6, -5, -3, -2, -1, 0, 1}}
    \cup {Str(s_abc), Str(<<"2", "0">>), Str(NatStr(BaseYear)), IntV(BaseYear - 6), IntV(20200115),
          BoolV(TRUE)}

\* one field of a base record replaced
With(base, field, v) == [base EXCEPT ![field] = v]

\* every single-field variation of a base record
Variations(base) ==
    {With(base, f, v) :
        f \in {"brief_title", "official_title", "brief_summaries_description",
               "detailed_description", "phase", "overall_status"},
        v \in EmptyValues \cup {Str(s_TitleA)}}
    \cup {With(base, "source", v) : v \in SourceValues}
    \cup {With(base, "sponsors", v) : v \in SponsorsValues}
    \cup {With(With(base, "source", Str(s_Mayo)), "sponsors", v) : v \in SponsorsValues}
    \cup {With(base, "allocation", v) : v \in AllocationValues}
    \cup {With(base, "masking", v) : v \in MaskingValues}
    \cup {With(base, "has_dmc", v) : v \in DmcValues}
    \cup {With(base, "enrollment", v) : v \in EnrollmentValues}
    \cup {With(base, "start_date", v) : v \in StartDateValues}

\* the records built field by field from a few values each
ProductTrials ==
    {[EmptyTrial EXCEPT
        !.brief_title = bt, !.official_title = ot,
        !.brief_summaries_description = rest, !.phase = rest, !.overall_status = rest,
        !.source = src, !.detailed_description = dd, !.sponsors = sp,
        !.allocation = al, !.masking = ma, !.has_dmc = dm,
        !.enrollment = en, !.start_date = sd] :
        bt \in {Missing, Str(s_TitleA)}, ot \in {NoneV, Str(s_TitleA)},
        rest \in {Str(<<>>), Str(s_Summary)},
        src \in {Missing, NoneV, Str(s_Mayo), Str(s_Pfizer), IntV(7)},
        dd \in {Missing, Str(s_Desc)},
        sp \in {LMissing, ListV(<<>>), ListV(<<DictItem(Str(s_Pfizer), Str(s_INDUSTRY))>>),
                ListV(<<DictItem(Str(s_Mayo), Str(s_NIH))>>), ListV(<<StrItem(s_Pfizer)>>)},
        al \in {Missing, Str(s_RANDOMIZED)}, ma \in {NoneV, Str(s_DOUBLE)},
        dm \in {Missing, BoolV(TRUE)},
        en \in {Missing, IntV(1000), Str(s_abc)},
        sd \in {Missing, YearDate(BaseYear), IntV(20200115)}}

ScoreTrials == ProductTrials \cup Variations(EmptyTrial) \cup Variations(FullTrial)

-----------------------------------------------------------------------------
(* The scorer applied to one record *)

NoOut == [exc |-> "", score7 |-> 0]

InitScore ==
    /\ script \in Scripts
    /\ now_year = BaseYear
    /\ pc = "ready"
    /\ trial \in ScoreTrials
    /\ emb_arg = NoEmbedding
    /\ out = NoOut
    /\ RunIdle

Score ==
    /\ pc = "ready"
    /\ out' = calculate_quality_score(script, trial, now_year)
    /\ pc' = "scored"
    /\ UNCHANGED <<script, now_year, trial, emb_arg, run_vars>>

NextScore == Score

SpecScore == InitScore /\ [][NextScore]_vars

-----------------------------------------------------------------------------
(* Claims about the Quality Scorer (checked under SpecScore) *)

\* C1: for every record, malformed ones included, calculate_quality_score raises
\* nothing and returns a score in [0, 100].
C1_ScoreNeverRaisesAndInRange ==
    pc = "scored" => (out.exc = "" /\ 0 <= out.score7 /\ out.score7 <= 700)

\* every one of the seven required fields is non-empty
AllRequiredFilled(t) == Filled(t) = Len(required_fields)

\* the enrollment reads as a number of at least 1000
EnrollmentAtLeast1000(t) ==
    /\ t.enrollment.t # "missing"
    /\ PyInt(t.enrollment).exc = ""
    /\ PyInt(t.enrollment).n >= 1000

\* the start date is a string whose first four characters are the current year
StartsThisYear(t, current_year) ==
    /\ t.start_date.t = "str"
    /\ PyInt(Str(Take(t.start_date.s, 4))).exc = ""
    /\ PyInt(Str(Take(t.start_date.s, 4))).n = current_year

\* the sponsor name is a string holding a listed industry name
ListedIndustrySource(t) == t.source.t = "str" /\ IsIndustryName(Lower(t.source.s))

\* the case C2 names: complete, industry-sponsored, randomized, double-masked,
\* at least 1000 enrolled, started this year
C2Case ==
    /\ AllRequiredFilled(trial)
    /\ ListedIndustrySource(trial)
    /\ trial.allocation = Str(s_RANDOMIZED)
    /\ trial.masking = Str(s_DOUBLE)
    /\ EnrollmentAtLeast1000(trial)
    /\ StartsThisYear(trial, now_year)

\* C2 as stated: every record of that case scores exactly 100.0.
C2_Original_FullScore ==
    (pc = "scored" /\ C2Case) => (out.exc = "" /\ out.score7 = 700)

\* C2 as amended: a record of that case that also has a non-empty detailed
\* description and a truthy data-monitoring-committee flag, its sponsor name being
\* one of the listed industry names, scores exactly 100.0 (in both scripts).
C2_FullScore ==
    (pc = "scored" /\ C2Case /\ Truthy(trial.detailed_description) /\ Truthy(trial.has_dmc))
        => (out.exc = "" /\ out.score7 = 700)

\* a record of the amended case has been scored, reached through a numeric string
\* enrollment
C2_Witness ==
    /\ pc = "scored" /\ C2Case
    /\ Truthy(trial.detailed_description) /\ Truthy(trial.has_dmc)
    /\ trial.enrollment.t = "str"
    /\ out.score7 = 700

\* every scored field is empty or missing
AllScoredFieldsEmpty(t) ==
    /\ Filled(t) = 0
    /\ ~Truthy(t.detailed_description)
    /\ ~LTruthy(t.sponsors)
    /\ ~Truthy(t.allocation) /\ ~Truthy(t.masking) /\ ~Truthy(t.has_dmc)
    /\ ~Truthy(t.start_date)

\* C3: a record whose scored fields are all empty or missing scores exactly 0.0
\* (index_trials_gemini.py).
C3_EmptyScoresZero ==
    (pc = "scored" /\ script = "gemini" /\ AllScoredFieldsEmpty(trial))
        => (out.exc = "" /\ out.score7 = 0)

\* an all-empty record with a null sponsor name has been scored by the gemini script
C3_Witness ==
    /\ pc = "scored" /\ script = "gemini" /\ AllScoredFieldsEmpty(trial)
    /\ trial.source = NoneV
    /\ out.score7 = 0

-----------------------------------------------------------------------------
(* The synthesizer applied to one record (index_trials_gemini.py) *)

\* a description of n characters; "#" occurs in no other sample text
DescOfLen(n) == Str([i \in 1..n |-> "#"])

ConditionsValues ==
    {LMissing, ListV(<<>>),
     ListV(<<DictItem(Str(<<"A", "s", "t", "h", "m", "a">>), Missing), StrItem(<<"F", "l", "u">>)>>),
     ListV(<<DictItem(Missing, Missing), DictItem(NoneV, Missing)>>),
     ListV(<<DictItem(IntV(3), Missing)>>)}

KeywordsValues ==
    {LMissing, ListV(<<StrItem(<<"l", "u", "n", "g">>), StrItem(<<"a", "d", "u", "l", "t">>)>>),
     ListV(<<DictItem(Str(<<"l", "u", "n", "g">>), Missing)>>), LStr(<<"l", "u", "n", "g">>)}

\* short records: every part present or absent
ShortTextTrials ==
    {[EmptyTrial EXCEPT
        !.brief_title = bt, !.official_title = ot, !.brief_summaries_description = su,
        !.detailed_description = dd, !.conditions = co, !.interventions = iv,
        !.keywords = kw, !.phase = ph, !.overall_status = ph] :
        bt \in {Missing, Str(s_TitleA)}, ot \in {NoneV, Str(s_TitleA), Str(s_TitleB)},
        su \in {Missing, Str(s_Summary)},
        dd \in {Missing, DescOfLen(3), IntV(5)},
        co \in ConditionsValues,
        iv \in {LMissing, ListV(<<DictItem(Str(<<"D", "r", "u", "g", " ", "X">>), Missing)>>)},
        kw \in KeywordsValues,
        ph \in {Missing, Str(s_PHASE3)}}

\* records whose description is around the ceiling
LongTextTrials ==
    {[EmptyTrial EXCEPT
        !.brief_title = bt, !.official_title = ot, !.brief_summaries_description = su,
        !.detailed_description = DescOfLen(DESCRIPTION_CEILING + k)] :
        bt \in {Missing, Str(s_TitleA)}, ot \in {Str(s_TitleA), Str(s_TitleB)},
        su \in {Missing, Str(s_Summary)},
        k \in {-1, 0, 1}}

TextTrials == ShortTextTrials \cup LongTextTrials

InitText ==
    /\ script = "gemini"
    /\ now_year = BaseYear
    /\ pc = "ready"
    /\ trial \in TextTrials
    /\ emb_arg = NoEmbedding
    /\ out = NoOut
    /\ RunIdle

Synthesize ==
    /\ pc = "ready"
    /\ out' = generate_searchable_text(trial)
    /\ pc' = "synthesized"
    /\ UNCHANGED <<script, now_year, trial, emb_arg, run_vars>>

NextText == Synthesize

SpecText == InitText /\ [][NextText]_vars

\* chars starts with prefix
StartsWith(prefix, chars) == Len(chars) >= Len(prefix) /\ SubSeq(chars, 1, Len(prefix)) = prefix

\* some part of the list carries the label
HasPart(parts, label) == \E i \in 1..Len(parts) : StartsWith(label, parts[i])

\* the description is a string at or above the ceiling
LongDescription(t) ==
    t.detailed_description.t = "str" /\ Len(t.detailed_description.s) >= DESCRIPTION_CEILING

\* C9: the official title is omitted whenever it equals the brief title, and a
\* description at or above the 2000-character ceiling is dropped whole: the output has
\* no description part and not one character of the description.
C9_OmitsDuplicateTitleAndLongDescription ==
    (pc = "synthesized" /\ out.exc = "") =>
        /\ (Get(trial.official_title) = Get(trial.brief_title)
                => ~HasPart(out.parts, <<"F", "u", "l", "l", " ", "t", "i", "t", "l", "e", ":", " ">>))
        /\ (LongDescription(trial)
                => /\ ~HasPart(out.parts, <<"D", "e", "s", "c", "r", "i", "p", "t", "i", "o", "n", ":", " ">>)
                   /\ \A i \in 1..Len(out.text) : out.text[i] # "#")

\* a record whose two titles are equal and whose description is exactly at the
\* ceiling has been synthesized to a non-empty text
C9_Witness ==
    /\ pc = "synthesized" /\ out.exc = ""
    /\ Truthy(trial.official_title) /\ trial.official_title = trial.brief_title
    /\ trial.detailed_description.t = "str"
    /\ Len(trial.detailed_description.s) = DESCRIPTION_CEILING
    /\ out.text # <<>>

-----------------------------------------------------------------------------
(* The transformer applied to one record and one embedding argument *)

TransformTrials ==
    {EmptyTrial, FullTrial}
    \cup {With(FullTrial, "brief_title", v) : v \in EmptyValues}
    \cup {With(FullTrial, "sponsors", v) : v \in SponsorsValues}
    \cup {With(EmptyTrial, "source", v) : v \in SourceValues}

EmbeddingArgs ==
    {NoEmbedding}
    \cup {Vec(v, d) : v \in {0, 1},
                      d \in {0, 1, EMBEDDING_DIMENSION - 1, EMBEDDING_DIMENSION,
                             EMBEDDING_DIMENSION + 1, 2 * EMBEDDING_DIMENSION}}

InitTransform ==
    /\ script \in Scripts
    /\ now_year = BaseYear
    /\ pc = "ready"
    /\ trial \in TransformTrials
    /\ emb_arg \in EmbeddingArgs
    /\ out = NoOut
    /\ RunIdle

Transform ==
    /\ pc = "ready"
    /\ out' = transform_trial_for_indexing(script, trial, emb_arg, now_year)
    /\ pc' = "transformed"
    /\ UNCHANGED <<script, now_year, trial, emb_arg, run_vars>>

NextTransform == Transform

SpecTransform == InitTransform /\ [][NextTransform]_vars

\* C6: the document has the description_embedding field only if the embedding is
\* present and its length is the configured dimensionality.
C6_EmbeddingOnlyIfRightLength ==
    (pc = "transformed" /\ out.exc = "" /\ out.doc.has_embedding)
        => (emb_arg.t # "none" /\ VecLen(emb_arg) = EMBEDDING_DIMENSION)

-----------------------------------------------------------------------------
(* The run: main() of index_trials_gemini.py *)

\* Bound: the corpus has at most MaxTrials records
MaxTrials == 11

\* Bound: a corpus whose last record is flawed (untitled, malformed, duplicate) has
\* at most MaxFlawed records
MaxFlawed == 3

\* Bound: the store rejects at most MaxRejected documents of a run
MaxRejected == 2

\* EMBEDDING_BATCH_SIZE = 10
EMBEDDING_BATCH_SIZE == 10

\* text[:8000] if len(text) > 8000 else text
EMBEDDING_TEXT_CEILING == 8000

NctId(i) == <<"N", "C", "T">> \o NatStr(i)

TrialTitle(i) == <<"T", "r", "i", "a", "l", " ">> \o NatStr(i)

CorpusKinds == {"clean", "untitled", "malformed", "duplicate"}

\* record i of a corpus of n records: identified and titled; the last record of an
\* "untitled" corpus has no brief_title, the last record of a "malformed" corpus lists
\* a sponsor that is no mapping, the last record of a "duplicate" corpus has the
\* nct_id of the first one
CorpusRecord(i, n, kind) ==
    LET base == [EmptyTrial EXCEPT !.nct_id = Str(NctId(i)), !.brief_title = Str(TrialTitle(i))]
    IN IF i = n /\ kind = "untitled" THEN [base EXCEPT !.brief_title = Missing]
       ELSE IF i = n /\ kind = "malformed" THEN [base EXCEPT !.sponsors = ListV(<<StrItem(s_Pfizer)>>)]
       ELSE IF i = n /\ n > 1 /\ kind = "duplicate" THEN [base EXCEPT !.nct_id = Str(NctId(1))]
       ELSE base

Corpus(n, kind) == [i \in 1..n |-> CorpusRecord(i, n, kind)]

Corpora ==
    {Corpus(n, "clean") : n \in 0..MaxTrials}
    \cup {Corpus(n, kind) : n \in 1..MaxFlawed, kind \in CorpusKinds}

\* a document an earlier run left in the index
OldDocument ==
    transform_trial_for_indexing("gemini",
        [EmptyTrial EXCEPT !.nct_id = Str(NctId(0)), !.brief_title = Str(TrialTitle(0))],
        NoEmbedding, BaseYear).doc

OldStore == [id \in {Str(NctId(0))} |-> OldDocument]

Init ==
    /\ script = "gemini"
    /\ now_year = BaseYear
    /\ pc = "start"
    /\ trial = EmptyTrial
    /\ emb_arg = NoEmbedding
    /\ out = NoOut
    /\ trials = <<>>
    /\ use_embeddings = FALSE
    /\ index_exists \in BOOLEAN
    /\ store = IF index_exists THEN OldStore ELSE EmptyStore
    /\ texts = <<>>
    /\ embeddings = NoEmbeddings
    /\ batch_start = 0
    /\ batch_embeddings = <<>>
    /\ failed_batches = {}
    /\ actions = <<>>
    /\ next_item = 0
    /\ success = 0
    /\ failed = 0
    /\ submitted = <<>>
    /\ rejected = {}
    /\ report = NoReport
    /\ store_ops = {}
    /\ index_call = NoIndexCall
    /\ last_call = "none"
    /\ failure = ""
    /\ exit_code = -1

\* sys.exit(1), after the error message that says why
Exit1(why) == pc' = "exit" /\ failure' = why /\ exit_code' = 1

\* an exception nobody catches ends the process with a traceback and status 1
Crash(where) == pc' = "crashed" /\ failure' = where /\ exit_code' = 1

\* if not os.path.exists(DATASET_PATH): sys.exit(1)
CheckDataset ==
    /\ pc = "start"
    /\ \E exists \in BOOLEAN :
        IF exists THEN pc' = "load" /\ UNCHANGED <<failure, exit_code>>
        ELSE Exit1("dataset not found")
    /\ UNCHANGED <<pure_vars, index_call, trials, use_embeddings, index_exists, store, texts, embeddings,
                   batch_start, batch_embeddings, failed_batches, actions, next_item, success, failed,
                   submitted, rejected, report, store_ops, last_call>>

\* trials = json.load(f)
LoadTrials ==
    /\ pc = "load"
    /\ trials' \in Corpora
    /\ pc' = "credentials"
    /\ UNCHANGED <<pure_vars, index_call, use_embeddings, index_exists, store, texts, embeddings,
                   batch_start, batch_embeddings, failed_batches, actions, next_item, success, failed,
                   submitted, rejected, report, store_ops, last_call, failure, exit_code>>

\* the credential checks placed after the attempt to connect
ConnectOutcome_eager(cloud_id, api_key, password, reachable) ==
    IF ~cloud_id /\ ~api_key THEN [exit |-> "credentials not found", contacted |-> TRUE]
    ELSE IF ~(cloud_id /\ api_key) /\ ~password THEN [exit |-> "no valid authentication", contacted |-> TRUE]
    ELSE IF ~reachable THEN [exit |-> "connection failed", contacted |-> TRUE]
    ELSE [exit |-> "", contacted |-> TRUE]

\* The credential checks and the connection of main(): the exit taken ("" when the
\* run goes on) and whether the store was contacted (the client built, es.info()
\* called). Exit 1 without ES_CLOUD_ID and ES_API_KEY; without ES_CLOUD_ID and
\* ES_API_KEY together or ES_PASSWORD; when building the client or es.info() raises.
ConnectOutcome(cloud_id, api_key, password, reachable) ==
    IF ~cloud_id /\ ~api_key THEN [exit |-> "credentials not found", contacted |-> FALSE]
    ELSE IF ~(cloud_id /\ api_key) /\ ~password THEN [exit |-> "no valid authentication", contacted |-> FALSE]
    ELSE IF ~reachable THEN [exit |-> "connection failed", contacted |-> TRUE]
    ELSE [exit |-> "", contacted |-> TRUE]

Connect ==
    /\ pc = "credentials"
    /\ \E cloud_id \in BOOLEAN, api_key \in BOOLEAN, password \in BOOLEAN, reachable \in BOOLEAN :
        LET o == ConnectOutcome(cloud_id, api_key, password, reachable)
        IN /\ store_ops' = IF o.contacted THEN store_ops \cup {"connect"} ELSE store_ops
           /\ IF o.exit # "" THEN Exit1(o.exit)
              ELSE pc' = "initialize_gemini" /\ UNCHANGED <<failure, exit_code>>
    /\ UNCHANGED <<pure_vars, index_call, trials, use_embeddings, index_exists, store, texts, embeddings,
                   batch_start, batch_embeddings, failed_batches, actions, next_item, success, failed,
                   submitted, rejected, report, last_call>>

\* a main() that loads the documents before it sees to the index
AfterInMain_loadFirst(call) ==
    CASE call = "initialize_gemini" -> "bulk_index_trials"
      [] call = "bulk_index_trials" -> "create_index"
      [] call = "create_index_if_not_exists" -> "bulk_done"

\* where main() stands after a call returns: initialize_gemini(), then
\* create_index_if_not_exists(es), then bulk_index_trials(...), then the test of
\* its success count
AfterInMain(call) ==
    CASE call = "initialize_gemini" -> "create_index"
      [] call = "create_index_if_not_exists" -> "bulk_index_trials"
      [] call = "bulk_index_trials" -> "bulk_done"

\* use_embeddings = initialize_gemini(): False without a key or when configure raises
initialize_gemini ==
    /\ pc = "initialize_gemini"
    /\ \E has_key \in BOOLEAN, configured \in BOOLEAN :
        use_embeddings' = (has_key /\ configured)
    /\ pc' = AfterInMain("initialize_gemini")
    /\ UNCHANGED <<pure_vars, index_call, trials, index_exists, store, texts, embeddings,
                   batch_start, batch_embeddings, failed_batches, actions, next_item, success, failed,
                   submitted, rejected, report, store_ops, last_call, failure, exit_code>>

\* response = input("Delete and recreate index? (y/N): ").strip().lower(): asked only
\* when the index exists
IndexAnswer(exists, answer_yes) ==
    IF exists THEN (IF answer_yes THEN "y" ELSE "n") ELSE ""

IndexRequests_createFirst(exists, answer_yes) ==
    IF exists
    THEN IF answer_yes THEN <<"exists", "create", "delete">> ELSE <<"exists">>
    ELSE <<"exists", "create">>

\* the requests create_index_if_not_exists makes of the store, in order: exists; then
\* delete and create when the index exists and the answer is 'y', nothing more when
\* it exists and the answer is anything else, create when it does not exist
IndexRequests(exists, answer_yes) ==
    IF exists
    THEN IF answer_yes THEN <<"exists", "delete", "create">> ELSE <<"exists">>
    ELSE <<"exists", "create">>

\* the index after one request: [exists, docs]; a deleted index is gone with its
\* documents, a created one is empty
AfterRequest(ix, req) ==
    CASE req = "delete" -> [exists |-> FALSE, docs |-> EmptyStore]
      [] req = "create" -> [exists |-> TRUE, docs |-> EmptyStore]
      [] OTHER -> ix

RECURSIVE AfterRequests(_, _)
AfterRequests(ix, reqs) ==
    IF reqs = <<>> THEN ix
    ELSE AfterRequests(AfterRequest(ix, Head(reqs)), Tail(reqs))

\* create_index_if_not_exists: an existing index is kept, or deleted and created
\* again when the user answers 'y'; a missing index is created
create_index_if_not_exists ==
    /\ pc = "create_index"
    /\ \E answer_yes \in BOOLEAN :
        LET reqs == IndexRequests(index_exists, answer_yes)
            ix == AfterRequests([exists |-> index_exists, docs |-> store], reqs)
        IN /\ index_call' = [answer |-> IndexAnswer(index_exists, answer_yes), requests |-> reqs]
           /\ store_ops' = store_ops \cup {reqs[i] : i \in 1..Len(reqs)}
           /\ index_exists' = ix.exists
           /\ store' = ix.docs
    /\ pc' = AfterInMain("create_index_if_not_exists")
    /\ UNCHANGED <<pure_vars, trials, use_embeddings, texts, embeddings,
                   batch_start, batch_embeddings, failed_batches, actions, next_item, success, failed,
                   submitted, rejected, report, last_call, failure, exit_code>>

-----------------------------------------------------------------------------
(* bulk_index_trials: the sub-batch loop, the documents, the bulk load *)

\* the first text whose synthesis raises, 0 if none does
FirstFailingText(ts) ==
    IF \E i \in 1..Len(ts) : generate_searchable_text(ts[i]).exc # ""
    THEN CHOOSE i \in 1..Len(ts) :
            /\ generate_searchable_text(ts[i]).exc # ""
            /\ \A j \in 1..(i - 1) : generate_searchable_text(ts[j]).exc = ""
    ELSE 0

\* the head of bulk_index_trials: embeddings = None; with use_embeddings, the texts
\* are synthesized and embeddings = []
BulkStart ==
    /\ pc = "bulk_index_trials"
    /\ IF ~use_embeddings
       THEN /\ pc' = "prepare"
            /\ UNCHANGED <<texts, embeddings, failure, exit_code>>
       ELSE IF FirstFailingText(trials) # 0
       THEN /\ Crash("generate_searchable_text")
            /\ UNCHANGED <<texts, embeddings>>
       ELSE /\ texts' = [i \in 1..Len(trials) |-> generate_searchable_text(trials[i]).text]
            /\ embeddings' = [t |-> "list", items |-> <<>>]
            /\ pc' = IF Len(trials) = 0 THEN "prepare" ELSE "embedding"
            /\ UNCHANGED <<failure, exit_code>>
    /\ UNCHANGED <<pure_vars, index_call, trials, use_embeddings, index_exists, store,
                   batch_start, batch_embeddings, failed_batches, actions, next_item, success, failed,
                   submitted, rejected, report, store_ops, last_call>>

\* a sub-batch taken in the opposite order
Batch_reversed(ts, i) ==
    LET hi == Min(i + EMBEDDING_BATCH_SIZE, Len(ts))
    IN [k \in 1..(hi - i) |-> ts[hi + 1 - k]]

\* batch = texts[i:i + EMBEDDING_BATCH_SIZE]
Batch(ts, i) == SubSeq(ts, i + 1, Min(i + EMBEDDING_BATCH_SIZE, Len(ts)))

\* a truncation that keeps the last characters of a long text
Truncate_tail(text) ==
    IF Len(text) > EMBEDDING_TEXT_CEILING
    THEN SubSeq(text, Len(text) - EMBEDDING_TEXT_CEILING + 1, Len(text))
    ELSE text

\* truncated_text = text[:8000] if len(text) > 8000 else text
Truncate(text) == IF Len(text) > EMBEDDING_TEXT_CEILING THEN Take(text, EMBEDDING_TEXT_CEILING) ELSE text

\* result['embedding'] of a successful provider call: a vector of the model's 768
\* dimensions that depends on the content alone (here: on the digits of the text)
ProviderVector(content) == Vec(1 + DigitsVal(SelectSeq(content, IsDigit)), EMBEDDING_DIMENSION)

\* [[0.0] * EMBEDDING_DIMENSION] * len(texts)
ZeroVectors(n) == [i \in 1..n |-> Vec(0, EMBEDDING_DIMENSION)]

\* a fallback of a full sub-batch of vectors, whatever the size of the batch
FallbackBatch_fullsize(batch, embedded) == ZeroVectors(EMBEDDING_BATCH_SIZE)

\* a fallback that keeps the vectors embedded before the failure
FallbackBatch_keep(batch, embedded) == embedded \o ZeroVectors(Len(batch) - Len(embedded))

\* what generate_embeddings_batch returns from its except branch, whatever it had
\* embedded before the call that failed
FallbackBatch(batch, embedded) == ZeroVectors(Len(batch))

\* what follows a provider call inside generate_embeddings_batch: time.sleep(0.05)
\* after a result was appended; a call that raises leaves the loop for the except
\* branch, which does not sleep
AfterCall(call_ok) == IF call_ok THEN "slept" ELSE "raised"

\* a sub-batch loop that ends at the first sub-batch that failed
BatchLoopGoesOn_abort(ok, i, n) == ok /\ i + EMBEDDING_BATCH_SIZE < n

\* for i in range(0, len(texts), EMBEDDING_BATCH_SIZE): whether a sub-batch follows
\* the one at i. generate_embeddings_batch returns a list from its except branch as
\* from its normal path, so the loop goes on whether or not (ok) the batch succeeded.
BatchLoopGoesOn(ok, i, n) == i + EMBEDDING_BATCH_SIZE < n

\* One provider call of generate_embeddings_batch, for the next text of the current
\* sub-batch. A success appends the vector and sleeps; the last success of a batch
\* returns the list. A failure returns the fallback for the whole batch. The returned
\* list is appended to embeddings and the loop goes to the next sub-batch.
EmbedCall ==
    /\ pc = "embedding"
    /\ LET batch == Batch(texts, batch_start)
           content == Truncate(batch[Len(batch_embeddings) + 1])
           done(ok, returned) ==
               /\ embeddings' = [embeddings EXCEPT !.items = @ \o returned]
               /\ batch_embeddings' = <<>>
               /\ batch_start' = batch_start + EMBEDDING_BATCH_SIZE
               /\ pc' = IF BatchLoopGoesOn(ok, batch_start, Len(texts))
                        THEN "embedding" ELSE "prepare"
       IN \E call_ok \in BOOLEAN :
            /\ last_call' = AfterCall(call_ok)
            /\ IF ~call_ok
               THEN /\ done(FALSE, FallbackBatch(batch, batch_embeddings))
                    /\ failed_batches' = failed_batches \cup {batch_start}
               ELSE IF Len(batch_embeddings) + 1 = Len(batch)
               THEN /\ done(TRUE, Append(batch_embeddings, ProviderVector(content)))
                    /\ UNCHANGED failed_batches
               ELSE /\ batch_embeddings' = Append(batch_embeddings, ProviderVector(content))
                    /\ UNCHANGED <<embeddings, batch_start, pc, failed_batches>>
    /\ UNCHANGED <<pure_vars, index_call, trials, use_embeddings, index_exists, store, texts,
                   actions, next_item, success, failed, submitted, rejected, report,
                   store_ops, failure, exit_code>>

\* bool(embeddings): None and [] are falsy
EmbeddingsTruthy(e) == e.t = "list" /\ e.items # <<>>

\* an embedding for every record, the fallback vector where there is no list
EmbeddingFor_zero(e, i) == [exc |-> "", v |-> Vec(0, EMBEDDING_DIMENSION)]

\* embedding = embeddings[i] if embeddings else None; "IndexError" past the end
EmbeddingFor(e, i) ==
    IF ~EmbeddingsTruthy(e) THEN [exc |-> "", v |-> NoEmbedding]
    ELSE IF i > Len(e.items) THEN [exc |-> "IndexError", v |-> NoEmbedding]
    ELSE [exc |-> "", v |-> e.items[i]]

\* the action built for record i: its _id and its document, or the exception
ActionFor(ts, e, i, current_year) ==
    IF EmbeddingFor(e, i).exc # "" THEN [exc |-> "IndexError", id |-> NoneV, source |-> <<>>]
    ELSE LET tr == transform_trial_for_indexing("gemini", ts[i], EmbeddingFor(e, i).v, current_year)
         IN [exc |-> tr.exc, id |-> Get(ts[i].nct_id), source |-> tr.doc]

\* the loop that prepares the actions; an exception of transform_trial_for_indexing
\* (or of embeddings[i]) is not caught
PrepareDocuments ==
    /\ pc = "prepare"
    /\ IF \E i \in 1..Len(trials) : ActionFor(trials, embeddings, i, now_year).exc # ""
       THEN /\ Crash("transform_trial_for_indexing")
            /\ UNCHANGED <<actions, submitted>>
       ELSE /\ actions' = [i \in 1..Len(trials) |-> ActionFor(trials, embeddings, i, now_year)]
            /\ submitted' = [i \in 1..Len(trials) |-> 0]
            /\ pc' = IF Len(trials) = 0 THEN AfterInMain("bulk_index_trials") ELSE "streaming_bulk"
            /\ UNCHANGED <<failure, exit_code>>
    /\ UNCHANGED <<pure_vars, index_call, trials, use_embeddings, index_exists, store, texts, embeddings,
                   batch_start, batch_embeddings, failed_batches, next_item, success, failed, rejected, report,
                   store_ops, last_call>>

\* an index that keeps the document it already has under an _id
Write_keepFirst(st, id, doc) ==
    [x \in (DOMAIN st) \cup {id} |-> IF x \in DOMAIN st THEN st[x] ELSE doc]

\* an index that keeps only the document written last
Write_single(st, id, doc) == [x \in {id} |-> doc]

\* the index after a document is written under an _id: a document of that _id is replaced
Write(st, id, doc) == [x \in (DOMAIN st) \cup {id} |-> IF x = id THEN doc ELSE st[x]]

\* what the store may answer for the next action: it accepts it or rejects it (the
\* model lets it reject MaxRejected actions of a run)
StoreAnswers(rej) == IF Cardinality(rej) < MaxRejected THEN BOOLEAN ELSE {TRUE}

\* a loop that counts every result as a success
CountResult_alwaysSuccess(ok, s, f) == [success |-> s + 1, failed |-> f]

\* a stream that ends at the first rejected action (raise_on_error=True)
StreamContinues_abort(ok, k, n) == ok /\ k < n

\* if ok: success += 1 else: failed += 1
CountResult(ok, s, f) ==
    IF ok THEN [success |-> s + 1, failed |-> f] ELSE [success |-> s, failed |-> f + 1]

\* whether the stream goes on after the result of action k of n: with
\* raise_on_error=False and raise_on_exception=False a rejected action ends nothing
StreamContinues(ok, k, n) == k < n

\* One turn of the loop over helpers.streaming_bulk(..., raise_on_error=False,
\* raise_on_exception=False): the next action is submitted, the store accepts or
\* rejects it, and the loop counts the (ok, response) it is handed.
BulkItem ==
    /\ pc = "streaming_bulk"
    /\ LET k == next_item + 1
       IN /\ submitted' = [submitted EXCEPT ![k] = @ + 1]
          /\ store_ops' = store_ops \cup {"bulk"}
          /\ next_item' = k
          /\ \E ok \in StoreAnswers(rejected) :
                /\ store' = IF ok THEN Write(store, actions[k].id, actions[k].source) ELSE store
                /\ rejected' = IF ok THEN rejected ELSE rejected \cup {k}
                /\ success' = CountResult(ok, success, failed).success
                /\ failed' = CountResult(ok, success, failed).failed
                /\ pc' = IF StreamContinues(ok, k, Len(actions))
                         THEN "streaming_bulk" ELSE AfterInMain("bulk_index_trials")
    /\ UNCHANGED <<pure_vars, index_call, trials, use_embeddings, index_exists, texts, embeddings,
                   batch_start, batch_embeddings, failed_batches, actions, report, last_call, failure, exit_code>>

-----------------------------------------------------------------------------
(* validate_indexing and the end of main() *)

\* sample_doc['_source']['brief_title'][:60]: only a str can be sliced
SampleRaises(doc) == doc.brief_title.t # "str"

\* a validator that counts before it refreshes
ValidatorOps_countfirst(raised) ==
    <<"count", "refresh", "health", "read_back">> \o (IF raised THEN <<>> ELSE <<"aggregations">>)

\* the requests validate_indexing sends, in the order of its code: indices.refresh,
\* count, cluster.health, the search of one document and, unless printing the
\* sample raised, the search with the two aggregations (by_phase, by_status)
ValidatorOps(raised) ==
    <<"refresh", "count", "health", "read_back">> \o (IF raised THEN <<>> ELSE <<"aggregations">>)

\* if success > 0: validate_indexing(es)
ValidatorRuns(s) == s > 0

\* What main() does with bulk_index_trials' return value: validate_indexing runs
\* when success > 0. It refreshes, counts, and samples one document (any one the
\* store returns first); printing the sample raises when its brief_title is no str.
validate_indexing ==
    /\ pc = "bulk_done"
    /\ IF ~ValidatorRuns(success)
       THEN /\ pc' = "summary"
            /\ UNCHANGED <<report, store_ops, failure, exit_code>>
       ELSE /\ store_ops' = store_ops \cup {"refresh", "count", "health", "search"}
            /\ \E id \in DOMAIN store :
                IF SampleRaises(store[id])
                THEN /\ Crash("validate_indexing")
                     /\ report' = [count |-> Cardinality(DOMAIN store), warned_no_embeddings |-> FALSE,
                                   ops |-> ValidatorOps(TRUE)]
                ELSE /\ report' = [count |-> Cardinality(DOMAIN store),
                                   warned_no_embeddings |-> ~store[id].has_embedding,
                                   ops |-> ValidatorOps(FALSE)]
                     /\ pc' = "summary"
                     /\ UNCHANGED <<failure, exit_code>>
    /\ UNCHANGED <<pure_vars, index_call, trials, use_embeddings, index_exists, store, texts, embeddings,
                   batch_start, batch_embeddings, failed_batches, actions, next_item, success, failed,
                   submitted, rejected, last_call>>

\* the final summary is printed and main() returns
Summary ==
    /\ pc = "summary"
    /\ pc' = "done"
    /\ exit_code' = 0
    /\ UNCHANGED <<pure_vars, index_call, trials, use_embeddings, index_exists, store, texts, embeddings,
                   batch_start, batch_embeddings, failed_batches, actions, next_item, success, failed,
                   submitted, rejected, report, store_ops, last_call, failure>>

Next ==
    \/ CheckDataset
    \/ LoadTrials
    \/ Connect
    \/ initialize_gemini
    \/ create_index_if_not_exists
    \/ BulkStart
    \/ EmbedCall
    \/ PrepareDocuments
    \/ BulkItem
    \/ validate_indexing
    \/ Summary

Spec == Init /\ [][Next]_vars

-----------------------------------------------------------------------------
(* Claims about the run (checked under Spec) *)

\* the vector the fallback gives every text of a failed sub-batch
ZeroVector == Vec(0, EMBEDDING_DIMENSION)

\* the i of the sub-batch that holds text p (p counted from 1)
BatchStartOf(p) == ((p - 1) \div EMBEDDING_BATCH_SIZE) * EMBEDDING_BATCH_SIZE

\* the sub-batch loop has just ended: the list is about to be used for the documents
EmbeddingLoopOver == embeddings.t = "list" /\ pc = "prepare"

\* the sub-batch loop is running or has just ended
InEmbeddingLoop == embeddings.t = "list" /\ pc \in {"embedding", "prepare"}

\* C4: the list built by the sub-batch loop has one vector per text, in the order of
\* the texts: while the loop runs it holds the vectors of the sub-batches done, at its
\* end one per text, and the vector at position p is the provider's vector for text p
\* or the fallback vector.
C4_OneVectorPerTextInOrder ==
    InEmbeddingLoop =>
        /\ Len(embeddings.items) = Min(batch_start, Len(texts))
        /\ (EmbeddingLoopOver => Len(embeddings.items) = Len(texts))
        /\ \A p \in 1..Len(embeddings.items) :
              embeddings.items[p] \in {ProviderVector(Truncate(texts[p])), ZeroVector}

\* the loop has ended on a corpus of more than one sub-batch whose first sub-batch
\* failed and whose last text was embedded by the provider
C4_Witness ==
    /\ EmbeddingLoopOver
    /\ Len(texts) > EMBEDDING_BATCH_SIZE
    /\ Len(embeddings.items) = Len(texts)
    /\ embeddings.items[1] = ZeroVector
    /\ embeddings.items[Len(texts)] = ProviderVector(texts[Len(texts)])
    /\ embeddings.items[Len(texts)] # ZeroVector

\* C5: every text of a sub-batch in which a provider call failed has the vector of
\* EMBEDDING_DIMENSION zeros, also the texts embedded before the failure, and every
\* text of every other sub-batch has its provider vector.
C5_FailedBatchAllZeroOthersKept ==
    InEmbeddingLoop =>
        \A p \in 1..Len(embeddings.items) :
            IF BatchStartOf(p) \in failed_batches
            THEN VecLen(embeddings.items[p]) = EMBEDDING_DIMENSION /\ embeddings.items[p].val = 0
            ELSE embeddings.items[p] = ProviderVector(Truncate(texts[p]))

\* the loop has ended with the second sub-batch failed and the first one embedded
C5_Witness ==
    /\ EmbeddingLoopOver
    /\ failed_batches = {EMBEDDING_BATCH_SIZE}
    /\ Len(embeddings.items) = Len(texts)
    /\ embeddings.items[1] = ProviderVector(texts[1])
    /\ embeddings.items[Len(texts)] = ZeroVector

\* bulk_index_trials has returned
LoadReturned == pc \in {"bulk_done", "summary", "done"} \/ failure = "validate_indexing"

\* C7: bulk_index_trials returns (success, failed) with success + failed = N and
\* failed = the number of documents the store rejected.
C7_CountsAddUp ==
    LoadReturned =>
        /\ success + failed = Len(trials)
        /\ failed = Cardinality(rejected)

\* a load of several documents has returned with exactly one of them rejected, and
\* not the last one
C7_Witness ==
    /\ LoadReturned
    /\ Len(trials) > 2
    /\ Cardinality(rejected) = 1 /\ Len(trials) \notin rejected
    /\ failed = 1 /\ success = Len(trials) - 1

\* C8: a rejected document neither aborts the load nor is retried: no action is
\* ever submitted twice, and when the load returns every action, also those after a
\* rejected one, has been submitted exactly once.
C8_EachDocumentSubmittedOnce ==
    /\ \A k \in 1..Len(submitted) : submitted[k] <= 1
    /\ LoadReturned =>
          /\ Len(submitted) = Len(trials)
          /\ \A k \in 1..Len(trials) : submitted[k] = 1

\* the load has returned after the store rejected the first document and accepted
\* the last one
C8_Witness ==
    /\ LoadReturned
    /\ Len(trials) > 1
    /\ 1 \in rejected /\ Len(trials) \notin rejected
    /\ submitted[Len(trials)] = 1
    /\ Str(NctId(Len(trials))) \in DOMAIN store

\* C10: validate_indexing raises nothing, whatever the store holds after a load.
C10_ValidatorNeverRaises == failure # "validate_indexing"

-----------------------------------------------------------------------------
(* The run under scheduling: the script is one sequential process, so whenever a *)
(* step of main() is possible, some step is eventually taken.                    *)

FairSpec == Spec /\ WF_vars(Next)

\* the store connection has succeeded: main() is about to call initialize_gemini
Connected == pc = "initialize_gemini"

\* the final summary was printed and main() returned
EndedNormally == pc = "done" /\ exit_code = 0

\* C11: once the store connection has succeeded, whatever the provider, the records
\* and the store do afterwards, the run eventually prints the final summary and ends
\* normally.
C11_EventuallySummary == Connected ~> EndedNormally

-----------------------------------------------------------------------------
(* Claims about main() (checked under Spec) *)

\* the exits main() takes for a missing input file or missing store credentials
ConfigurationExit ==
    /\ pc = "exit"
    /\ failure \in {"dataset not found", "credentials not found", "no valid authentication"}

\* C12: when the input file or the store credentials are missing, the run exits
\* with a non-zero status before any store operation (connect, existence check,
\* create, delete, bulk write) and before any call of the embedding provider: the
\* store was asked nothing, holds what it held, and the provider was never called.
C12_ConfigExitBeforeAnyIO ==
    ConfigurationExit =>
        /\ exit_code # 0 /\ exit_code # -1
        /\ store_ops = {}
        /\ last_call = "none"
        /\ store = (IF index_exists THEN OldStore ELSE EmptyStore)

\* the run has loaded its records and exited for missing credentials, the index of
\* an earlier run untouched
C12_Witness ==
    /\ pc = "exit" /\ failure = "credentials not found"
    /\ exit_code = 1
    /\ trials # <<>>
    /\ store_ops = {}
    /\ index_exists /\ store = OldStore

\* initialize_gemini has returned False: the key is missing or genai.configure raised
KeywordOnly ==
    /\ ~use_embeddings
    /\ pc \notin {"start", "load", "credentials", "initialize_gemini", "exit"}

\* C13: when initialize_gemini returns False, no provider call is made during the
\* run, no document handed or written to the store has the description_embedding
\* field, and the records are still indexed: once the load returns, every record
\* was submitted once and every record the store did not reject is in the index
\* under its nct_id (as the document of the last accepted record of that nct_id).
C13_KeywordOnlyMode ==
    KeywordOnly =>
        /\ last_call = "none"
        /\ embeddings = NoEmbeddings /\ pc # "embedding"
        /\ \A k \in 1..Len(actions) :
              /\ ~actions[k].source.has_embedding
              /\ actions[k].id \in DOMAIN store => ~store[actions[k].id].has_embedding
        /\ LoadReturned =>
              /\ Len(actions) = Len(trials)
              /\ \A k \in 1..Len(trials) :
                    /\ submitted[k] = 1
                    /\ k \notin rejected =>
                          /\ actions[k].id \in DOMAIN store
                          /\ \E j \in k..Len(trials) :
                                /\ j \notin rejected /\ actions[j].id = actions[k].id
                                /\ store[actions[k].id] = actions[j].source

\* a run without the provider has ended normally with every one of several records
\* in the index and the validator's warning that the sample has no embedding
C13_Witness ==
    /\ KeywordOnly /\ pc = "done"
    /\ Len(trials) >= 3 /\ rejected = {}
    /\ \A k \in 1..Len(trials) : Str(NctId(k)) \in DOMAIN store
    /\ report.warned_no_embeddings
    /\ last_call = "none"

\* the run created the index: it did not exist, or was deleted on the user's 'y'
FreshIndex == "create" \in store_ops

\* no two records of the corpus have the same nct_id
DistinctIds(ts) == \A i, j \in 1..Len(ts) : i # j => ts[i].nct_id # ts[j].nct_id

\* main() is past its "if success > 0: validate_indexing(es)"
PastValidation == pc \in {"summary", "done"} \/ failure = "validate_indexing"

\* the case of C14: a fresh index, distinct identifiers, nothing rejected
C14Case == PastValidation /\ FreshIndex /\ DistinctIds(trials) /\ rejected = {}

\* C14 as stated: in that case the run has written N documents and the validator
\* has reported a count of N, equal to the loader's success count, for every N.
C14_Original_CountIsN ==
    C14Case =>
        /\ Cardinality(DOMAIN store) = Len(trials)
        /\ success = Len(trials)
        /\ report.count = Len(trials)

\* C14 as amended: in that case with N >= 1 the run has written N documents and the
\* validator has reported a count of N, equal to the loader's success count.
C14_CountIsN ==
    (C14Case /\ Len(trials) >= 1) =>
        /\ Cardinality(DOMAIN store) = Len(trials)
        /\ success = Len(trials)
        /\ report.count = Len(trials)

\* three records were loaded into an index the run deleted and created again, and
\* the validator has counted three
C14_Witness ==
    /\ pc = "done" /\ C14Case
    /\ "delete" \in store_ops
    /\ Len(trials) = 3
    /\ success = 3 /\ report.count = 3

-----------------------------------------------------------------------------
(* Claims about the embedding orchestrator (checked under Spec) *)

\* C15: between any two consecutive provider calls of a run the orchestrator
\* sleeps: whenever a provider call is made and it is not the first one, the
\* call before it was followed by the inter-call delay.
C15_DelayBetweenCalls == [][EmbedCall => last_call \in {"none", "slept"}]_vars

\* the position (from 1) of the text the next provider call submits
CallIndex == batch_start + Len(batch_embeddings) + 1

\* C16: the orchestrator never retries and never aborts. Every provider call
\* submits a text after the one of the call before, so no text is submitted twice;
\* a call that fails moves the loop to the first text of the next sub-batch, no
\* further; and the loop ends only when no sub-batch is left, so every sub-batch
\* after a failed one is still submitted.
C16_NoRetryNoAbort ==
    [][EmbedCall =>
          /\ CallIndex <= Len(texts)
          /\ (pc' = "embedding" => CallIndex' > CallIndex)
          /\ (last_call' = "raised" => CallIndex' = BatchStartOf(CallIndex) + EMBEDDING_BATCH_SIZE + 1)
          /\ (last_call' = "slept" /\ pc' = "embedding" => CallIndex' = CallIndex + 1)
          /\ (pc' = "embedding" <=> CallIndex' <= Len(texts))]_vars

\* the first sub-batch has failed at a text that is not its last, and the loop is
\* about to submit the first text of the second sub-batch
C16_Witness ==
    /\ pc = "embedding"
    /\ failed_batches = {0} /\ last_call = "raised"
    /\ Len(embeddings.items) = EMBEDDING_BATCH_SIZE
    /\ CallIndex = EMBEDDING_BATCH_SIZE + 1
    /\ CallIndex <= Len(texts)

-----------------------------------------------------------------------------
(* Claims about the Validator (checked under Spec) *)

\* the place of a request among those the validator sent, 0 if it did not send it
OpPos(op) ==
    IF \E i \in 1..Len(report.ops) : report.ops[i] = op
    THEN CHOOSE i \in 1..Len(report.ops) : report.ops[i] = op
    ELSE 0

\* the validator has run: it has sent its refresh
ValidatorRan == OpPos("refresh") # 0

\* the refresh was sent before each of the reads that were sent
RefreshPrecedesReads ==
    \A op \in {"count", "read_back", "aggregations"} :
        OpPos(op) # 0 => (OpPos("refresh") # 0 /\ OpPos("refresh") < OpPos(op))

\* C17 as stated: in every run in which the loader has completed, the validator
\* runs afterwards, and its refresh precedes its count, read-back and aggregations.
C17_Original_ValidatorAlwaysRuns ==
    PastValidation => (ValidatorRan /\ RefreshPrecedesReads)

\* C17 as amended: in every run in which the loader has completed with a success
\* count above zero, the validator runs afterwards, its refresh precedes its count
\* and its read-back, which it both sends, and precedes the aggregations, which it
\* sends unless printing the sample raised; with a success count of zero the
\* validator does not run.
C17_ValidatorRunsAfterSuccess ==
    PastValidation =>
        IF success > 0
        THEN /\ ValidatorRan /\ RefreshPrecedesReads
             /\ OpPos("count") # 0 /\ OpPos("read_back") # 0
             /\ (OpPos("aggregations") # 0 <=> failure # "validate_indexing")
        ELSE report = NoReport

\* a load in which the store rejected a document and accepted others has been
\* validated, aggregations included
C17_Witness ==
    /\ pc = "done"
    /\ success > 0 /\ failed > 0
    /\ OpPos("refresh") = 1
    /\ OpPos("aggregations") = Len(report.ops)
    /\ report.count = Cardinality(DOMAIN store)

-----------------------------------------------------------------------------
(* Claims about the components of the score (checked under SpecScore). A      *)
(* component is read off the returned score: it is what the record scores     *)
(* more than the same record without the fields the component is computed of. *)

\* the score (in sevenths) of the record under check with one key removed
ScoreWithout(field) ==
    calculate_quality_score(script, [trial EXCEPT ![field] = Missing], now_year).score7

\* the start date is a string that begins with a four-digit year
BeginsWithYear(d) == d.t = "str" /\ Len(d.s) >= 4 /\ \A i \in 1..4 : IsDigit(d.s[i])

\* the recency component as C18 states it
C18Recency(d, current_year) ==
    IF ~BeginsWithYear(d) THEN 0
    ELSE LET start_year == DigitsVal(Take(d.s, 4))
         IN IF start_year >= current_year THEN 10
            ELSE IF start_year >= current_year - 1 THEN 8
            ELSE IF start_year >= current_year - 2 THEN 5
            ELSE IF start_year >= current_year - 5 THEN 3
            ELSE 0

\* C18: the recency component is 10 / 8 / 5 / 3 / 0 by the start year against the
\* current year, the year before, two and five years before; a start date that is
\* missing or is no string beginning with a four-digit year contributes 0.
C18_RecencyComponent ==
    (pc = "scored" /\ out.exc = "")
        => out.score7 - ScoreWithout("start_date") = 7 * C18Recency(trial.start_date, now_year)

\* the enrollment component as C19 states it: an enrollment that reads as no number
\* (missing, null, a non-numeric string) or as a number below 50 contributes 0
C19Enrollment(e) ==
    IF e.t \in {"missing", "none"} \/ PyInt(e).exc # "" THEN 0
    ELSE LET enrollment == PyInt(e).n
         IN IF enrollment >= 1000 THEN 10
            ELSE IF enrollment >= 500 THEN 8
            ELSE IF enrollment >= 100 THEN 5
            ELSE IF enrollment >= 50 THEN 3
            ELSE 0

\* the points the enrollment field earns in the completeness count: 40/7 when it
\* is non-empty (in sevenths: 40)
EnrollmentCompleteness7(e) == IF Truthy(e) THEN 40 ELSE 0

\* C19: the enrollment component is 10 / 8 / 5 / 3 / 0 by the single highest
\* threshold reached (1000, 500, 100, 50); a missing, null, negative or non-numeric
\* enrollment contributes 0, and the enrollment changes nothing else of the score
\* but the completeness count.
C19_EnrollmentComponent ==
    (pc = "scored" /\ out.exc = "")
        => out.score7 - ScoreWithout("enrollment")
              = 7 * C19Enrollment(trial.enrollment) + EnrollmentCompleteness7(trial.enrollment)

\* an otherwise complete record with a non-numeric enrollment has been scored: the
\* enrollment earned its place in the completeness count and nothing else
C19_Witness ==
    /\ pc = "scored" /\ out.exc = ""
    /\ trial.enrollment = Str(s_abc)
    /\ Truthy(trial.start_date) /\ Truthy(trial.detailed_description)
    /\ out.score7 - ScoreWithout("enrollment") = 40

\* the score (in sevenths) of the record under check without sponsor name and sponsors
ScoreWithoutSponsor ==
    calculate_quality_score(script, [trial EXCEPT !.source = Missing, !.sponsors = LMissing],
                            now_year).score7

\* the sponsor component as C20 states it
C20Sponsor(t) ==
    IF t.source.t = "str" /\ \E i \in 1..Len(industry_sponsors) : Contains(industry_sponsors[i], Lower(t.source.s))
    THEN 15
    ELSE IF t.sponsors.items # <<>> /\ t.sponsors.items[1].cls = Str(s_INDUSTRY) THEN 12
    ELSE IF t.sponsors.items # <<>> THEN 8
    ELSE 0

\* C20: whenever the scorer returns, the sponsor component is exactly one of 15, 12,
\* 8, 0 by strict priority: 15 if the lower-cased sponsor name contains a listed
\* industry name, whatever the sponsors collection holds; otherwise 12 if the first
\* listed sponsor has class INDUSTRY; otherwise 8 if a sponsor is listed; otherwise
\* 0. (The sponsor name also counts in the completeness, 40/7, when non-empty.)
C20_SponsorComponent ==
    (pc = "scored" /\ out.exc = "")
        => out.score7 - ScoreWithoutSponsor
              = 7 * C20Sponsor(trial) + (IF Truthy(trial.source) THEN 40 ELSE 0)

\* a record of a listed industry name whose sponsors collection holds an INDUSTRY
\* sponsor has been scored: 15 points, not 12 and not 15 + 12
C20_Witness ==
    /\ pc = "scored" /\ out.exc = ""
    /\ trial.source = Str(s_Pfizer)
    /\ trial.sponsors = ListV(<<DictItem(Str(s_Pfizer), Str(s_INDUSTRY))>>)
    /\ out.score7 - ScoreWithoutSponsor = 7 * 15 + 40

-----------------------------------------------------------------------------
(* Claims about the lists of the synthesized text (checked under SpecText) *)

\* what C21 says an item contributes: a mapping its name attribute (nothing when
\* the attribute is absent or null), anything else its string form
C21ItemText(c) ==
    IF c.t = "dict" THEN (IF c.name.t \in {"missing", "none"} THEN <<>> ELSE PyStr(c.name))
    ELSE PyStr(c.name)

\* the contributions of a collection's items, the empty ones left out, joined by ', '
C21ListText(coll) ==
    Join(<<",", " ">>, SelectSeq([i \in 1..Len(coll.items) |-> C21ItemText(coll.items[i])],
                                 LAMBDA s : s # <<>>))

\* some part of the list is the label followed by the text
HasPartOf(parts, label, text) == \E i \in 1..Len(parts) : parts[i] = label \o text

\* C21: for every record, whatever mix of mapping and non-mapping items its
\* conditions, interventions and keywords hold, generate_searchable_text raises
\* nothing on account of these lists and returns a text in which each list appears
\* as the contributions of its items: the name attribute of a mapping, the string
\* form of any other item, nothing for an empty name.
C21_MixedListsNeverRaise ==
    (pc = "synthesized" /\ (Truthy(trial.detailed_description) => trial.detailed_description.t = "str")) =>
        /\ out.exc = ""
        /\ (trial.conditions.t = "list" /\ C21ListText(trial.conditions) # <<>>)
              => HasPartOf(out.parts, <<"C", "o", "n", "d", "i", "t", "i", "o", "n", "s", ":", " ">>,
                           C21ListText(trial.conditions))
        /\ (trial.interventions.t = "list" /\ C21ListText(trial.interventions) # <<>>)
              => HasPartOf(out.parts, <<"I", "n", "t", "e", "r", "v", "e", "n", "t", "i", "o", "n", "s", ":", " ">>,
                           C21ListText(trial.interventions))
        /\ (trial.keywords.t = "list" /\ C21ListText(trial.keywords) # <<>>)
              => HasPartOf(out.parts, <<"K", "e", "y", "w", "o", "r", "d", "s", ":", " ">>,
                           C21ListText(trial.keywords))

-----------------------------------------------------------------------------
(* One text on its way to the provider: synthesized by generate_searchable_text, *)
(* truncated by generate_embeddings_batch                                        *)

\* a summary of n characters, each the last digit of its position
SummaryOfLen(n) == Str([i \in 1..n |-> Digit[(i % 10) + 1]])

\* how far below and above the ceiling the lengths of the sample texts reach
CeilingMargin == 30

\* records whose synthesized text ("Summary: " and the summary) is short, or has a
\* length around the ceiling of 8000 characters
TruncationTrials ==
    {[EmptyTrial EXCEPT !.brief_summaries_description = SummaryOfLen(n)] : n \in 0..CeilingMargin}
    \cup {[EmptyTrial EXCEPT !.brief_summaries_description = SummaryOfLen(EMBEDDING_TEXT_CEILING - 9 + k)] :
            k \in (-CeilingMargin)..CeilingMargin}

InitTruncate ==
    /\ script = "gemini"
    /\ now_year = BaseYear
    /\ pc = "ready"
    /\ trial \in TruncationTrials
    /\ emb_arg = NoEmbedding
    /\ out = NoOut
    /\ RunIdle

\* texts = [generate_searchable_text(trial) ...]; content=truncated_text
HandToProvider ==
    /\ pc = "ready"
    /\ out' = [exc |-> generate_searchable_text(trial).exc,
               text |-> generate_searchable_text(trial).text,
               content |-> Truncate(generate_searchable_text(trial).text)]
    /\ pc' = "handed"
    /\ UNCHANGED <<script, now_year, trial, emb_arg, run_vars>>

NextTruncate == HandToProvider

SpecTruncate == InitTruncate /\ [][NextTruncate]_vars

\* C22: every text handed to the provider has at most 8000 characters and is a
\* prefix of the synthesized text: a text of at most 8000 characters is handed over
\* unchanged, a longer one cut to exactly its first 8000 characters.
C22_TruncatedPrefix ==
    (pc = "handed" /\ out.exc = "") =>
        /\ Len(out.content) <= 8000
        /\ Len(out.content) <= Len(out.text)
        /\ \A i \in 1..Len(out.content) : out.content[i] = out.text[i]
        /\ (Len(out.text) <= 8000 => out.content = out.text)
        /\ (Len(out.text) > 8000 => Len(out.content) = 8000)

\* a text of 8001 characters has been handed over as its first 8000
C22_Witness ==
    /\ pc = "handed" /\ out.exc = ""
    /\ Len(out.text) = 8001
    /\ Len(out.content) = 8000
    /\ out.content[8000] = out.text[8000]

-----------------------------------------------------------------------------
(* Claims about the load and the index (checked under Spec) *)

\* the position of the last record that has the nct_id of record i
LastWithIdOf(i) ==
    CHOOSE j \in i..Len(trials) :
        /\ trials[j].nct_id = trials[i].nct_id
        /\ \A k \in (j + 1)..Len(trials) : trials[k].nct_id # trials[i].nct_id

\* the identifiers of the corpus
CorpusIds == {Get(trials[i].nct_id) : i \in 1..Len(trials)}

\* the case of C23: the load has returned for a corpus in which two records share
\* an nct_id, the store having rejected nothing
C23Case == LoadReturned /\ ~DistinctIds(trials) /\ rejected = {}

\* both records are counted as successes, and the index holds one document per
\* identifier, that of the last record of the identifier
OverwrittenNotRejected ==
    /\ success = Len(trials) /\ failed = 0
    /\ CorpusIds \subseteq DOMAIN store
    /\ \A i \in 1..Len(trials) : store[Get(trials[i].nct_id)] = actions[LastWithIdOf(i)].source
    /\ Cardinality(CorpusIds) < success

\* C23 as stated: in that case both records count as successes, the index holds a
\* single document for the identifier, that of the later record, and the store's
\* document count is lower than the loader's success count.
C23_Original_CountBelowSuccess ==
    C23Case => (OverwrittenNotRejected /\ Cardinality(DOMAIN store) < success)

\* C23 as amended: in that case both records count as successes and the index holds
\* a single document for the identifier, that of the later record; the store's
\* document count is lower than the loader's success count when the run created the
\* index; an index that was kept holds the documents of earlier runs besides.
C23_DuplicateOverwrites ==
    C23Case =>
        /\ OverwrittenNotRejected
        /\ FreshIndex => Cardinality(DOMAIN store) < success
        /\ DOMAIN store = CorpusIds \cup (IF FreshIndex THEN {} ELSE DOMAIN OldStore)

\* three records, the third with the nct_id of the first, were loaded into a fresh
\* index: three successes, two documents, the first identifier holding the third record
C23_Witness ==
    /\ pc = "done" /\ C23Case /\ FreshIndex
    /\ Len(trials) = 3 /\ success = 3
    /\ Cardinality(DOMAIN store) = 2
    /\ store[Str(NctId(1))].brief_title = Str(TrialTitle(3))
    /\ report.count = 2

-----------------------------------------------------------------------------
(* C24: what create_index_if_not_exists asks of the store *)

\* the place of the first request of a kind in the call's requests, 0 if it was not made
IndexRequestPos(reqs, kind) ==
    IF \E i \in 1..Len(reqs) : reqs[i] = kind
    THEN CHOOSE i \in 1..Len(reqs) :
            reqs[i] = kind /\ \A j \in 1..(i - 1) : reqs[j] # kind
    ELSE 0

TimesRequested(reqs, kind) == Cardinality({i \in 1..Len(reqs) : reqs[i] = kind})

\* C24: create_index_if_not_exists asks for a create only when the index does not
\* exist at that moment. When the index exists and the answer declines, it asks for
\* no delete and no create and the stored documents are as they were; when the
\* answer is 'y', the delete comes before the create; when the index does not exist
\* nothing is asked of the user and only the create follows. The index exists
\* afterwards in every case.
C24_CreateOnlyWhenMissing ==
    [][pc = "create_index" =>
        LET reqs == index_call'.requests
            del == IndexRequestPos(reqs, "delete")
            cre == IndexRequestPos(reqs, "create")
        IN /\ index_exists'
           /\ Len(reqs) >= 1 /\ reqs[1] = "exists"
           /\ TimesRequested(reqs, "delete") <= 1 /\ TimesRequested(reqs, "create") <= 1
           /\ (index_exists /\ index_call'.answer # "y")
                => (del = 0 /\ cre = 0 /\ store' = store)
           /\ (index_exists /\ index_call'.answer = "y")
                => (0 < del /\ del < cre /\ store' = EmptyStore)
           /\ ~index_exists
                => (index_call'.answer = "" /\ del = 0 /\ cre > 0 /\ store' = EmptyStore)
           /\ cre > 0 => (~index_exists \/ (0 < del /\ del < cre))
    ]_vars

\* an existing index holding a document was deleted and created again
C24_Witness ==
    /\ pc = "bulk_index_trials"
    /\ index_call = [answer |-> "y", requests |-> <<"exists", "delete", "create">>]
    /\ index_exists
    /\ store = EmptyStore

-----------------------------------------------------------------------------
(* C25: the order of the run's phases *)

\* a document has been submitted to the store
Wrote == "bulk" \in store_ops

\* the validator has read from the store
ValidatorRead == report.ops # <<>>

\* create_index_if_not_exists has returned
IndexEnsured == index_call # NoIndexCall

\* C25: the phases of a run are strictly ordered. A provider call is made only
\* while no document has been written and the validator has not read; a document is
\* written only after create_index_if_not_exists has returned with the index in
\* existence, after the sub-batch loop has ended, and before the validator's first
\* read; the index is seen to before any provider call and any write; and what has
\* happened stays so (no phase is entered again).
C25_PhasesOrdered ==
    [][/\ pc = "embedding" =>
            (IndexEnsured /\ ~Wrote /\ ~Wrote' /\ ~ValidatorRead /\ ~ValidatorRead')
       /\ pc = "streaming_bulk" =>
            /\ Wrote' /\ IndexEnsured /\ index_exists
            /\ embeddings' = embeddings /\ batch_embeddings = <<>>
            /\ use_embeddings => Len(embeddings.items) = Len(trials)
            /\ ~ValidatorRead /\ ~ValidatorRead'
       /\ pc = "create_index" => (last_call = "none" /\ ~Wrote /\ ~Wrote' /\ ~ValidatorRead')
       /\ ValidatorRead' =>
            /\ store' = store /\ submitted' = submitted /\ index_call' = index_call
            /\ last_call' = last_call /\ embeddings' = embeddings
            /\ ValidatorRead \/ (\A k \in 1..Len(actions) : submitted[k] = 1)
       /\ Wrote => (Wrote' /\ index_call' = index_call /\ last_call' = last_call)
       /\ IndexEnsured => IndexEnsured'
    ]_vars

\* a run of two sub-batches that created the index, called the provider, wrote
\* every document and was validated
C25_Witness ==
    /\ pc = "done"
    /\ Len(trials) > EMBEDDING_BATCH_SIZE
    /\ "create" \in store_ops
    /\ last_call # "none"
    /\ Wrote
    /\ ValidatorRead
    /\ report.count = Len(trials)

-----------------------------------------------------------------------------
(* C26: each document carries the embedding of its own record *)

\* texts[i] is the text synthesized from record i
TextsOfOwnRecords ==
    /\ Len(texts) = Len(trials)
    /\ \A i \in 1..Len(trials) : texts[i] = generate_searchable_text(trials[i]).text

\* the vector record i is due: the provider's vector for the record's own text as
\* it is handed over, the zero vector when the record's sub-batch failed
OwnVector(i) ==
    IF BatchStartOf(i) \in failed_batches THEN ZeroVector
    ELSE ProviderVector(Truncate(texts[i]))

\* record i was written and no later record of the same nct_id was written after it
WrittenLast(i) ==
    /\ i <= next_item /\ i \notin rejected
    /\ \A j \in (i + 1)..next_item :
            j \in rejected \/ actions[j].id # actions[i].id

\* C26: with the provider initialised, the texts handed to the sub-batch loop are
\* those of the records in the corpus' order, the list of embeddings stays aligned with
\* the corpus at every point of the sub-batch loop, the document prepared for
\* record i has the record's nct_id as its key and carries the record's own vector
\* (the zero vector if its sub-batch failed), and so does the document the store
\* holds under that key once record i was written there last.
C26_EmbeddingOfOwnRecord ==
    use_embeddings =>
        /\ pc = "prepare" => TextsOfOwnRecords
        /\ embeddings.t = "list" =>
            /\ Len(embeddings.items) <= Len(trials)
            /\ \A i \in 1..Len(embeddings.items) : embeddings.items[i] = OwnVector(i)
        /\ \A i \in 1..Len(actions) :
            /\ actions[i].id = Get(trials[i].nct_id)
            /\ actions[i].source.has_embedding
            /\ actions[i].source.description_embedding = OwnVector(i)
            /\ WrittenLast(i) =>
                /\ actions[i].id \in DOMAIN store
                /\ store[actions[i].id].description_embedding = OwnVector(i)

\* a corpus of one full sub-batch and one record more: the first sub-batch failed,
\* the second did not, and the last record's document carries its own vector, which
\* is no other record's
C26_Witness ==
    /\ pc = "done"
    /\ use_embeddings
    /\ Len(trials) = EMBEDDING_BATCH_SIZE + 1
    /\ failed_batches = {0}
    /\ rejected = {}
    /\ DistinctIds(trials)
    /\ store[Str(NctId(1))].description_embedding = ZeroVector
    /\ store[Str(NctId(EMBEDDING_BATCH_SIZE + 1))].description_embedding
            = ProviderVector(texts[EMBEDDING_BATCH_SIZE + 1])
    /\ \A i \in 1..EMBEDDING_BATCH_SIZE :
            ProviderVector(texts[i]) # ProviderVector(texts[EMBEDDING_BATCH_SIZE + 1])

-----------------------------------------------------------------------------
(* C27: the scorers of the two indexing scripts *)

OtherScript == IF script = "basic" THEN "gemini" ELSE "basic"

\* C27: for every trial record, calculate_quality_score of index_trials.py and of
\* index_trials_gemini.py have the same outcome: both raise, or both return the
\* same score.
C27_ScorersAgree ==
    pc = "scored" =>
        LET other == calculate_quality_score(OtherScript, trial, now_year)
        IN \/ out.exc # "" /\ other.exc # ""
           \/ out.exc = "" /\ other.exc = "" /\ out.score7 = other.score7

-----------------------------------------------------------------------------
(* C28: the documents of a failed sub-batch keep an embedding field *)

\* the keys of the documents this run loaded: those of the actions the store accepted
LoadedIds == {actions[k].id : k \in (1..next_item) \ rejected}

\* the keys of the stored documents that have the description_embedding field
WithEmbedding == {id \in DOMAIN store : store[id].has_embedding}

-----------------------------------------------------------------------------
(* C29: the components add up to at most 100 *)

\* the sum of the six components before the clamp, in sevenths of a point
ComponentSum7 ==
    Completeness7(trial)
    + 7 * (DescriptionPoints(trial) + SponsorPoints(script, trial).pts + DesignPoints(trial)
           + EnrollmentPoints(trial) + RecencyPoints(script, trial, now_year))

\* C29: whenever the scorer returns, completeness is at most 40, description at
\* most 10, sponsor at most 15, design at most 15, enrollment at most 10 and recency
\* at most 10; their sum is at most 100, and the score returned is the sum itself:
\* min(100.0, score) changes nothing.
C29_ClampNeverActs ==
    (pc = "scored" /\ out.exc = "") =>
        /\ 0 <= Completeness7(trial) /\ Completeness7(trial) <= 7 * 40
        /\ DescriptionPoints(trial) \in 0..10
        /\ SponsorPoints(script, trial).pts \in 0..15
        /\ DesignPoints(trial) \in 0..15
        /\ EnrollmentPoints(trial) \in 0..10
        /\ RecencyPoints(script, trial, now_year) \in 0..10
        /\ ComponentSum7 <= 700
        /\ out.score7 = ComponentSum7

\* a record that earns every component in full: the sum is exactly 100
C29_Witness ==
    /\ pc = "scored" /\ out.exc = ""
    /\ Completeness7(trial) = 7 * 40
    /\ DescriptionPoints(trial) = 10
    /\ SponsorPoints(script, trial).pts = 15
    /\ DesignPoints(trial) = 15
    /\ EnrollmentPoints(trial) = 10
    /\ RecencyPoints(script, trial, now_year) = 10
    /\ out.score7 = 700

=============================================================================
